---------------------------- MODULE Spec2Model ----------------------------
(***************************************************************************)
(* Model of embers.sat_utils.chrono_ephem (src/src/embers/sat_utils/        *)
(* chrono_ephem.py): the Window Generator obs_times, the resampler          *)
(* interp_ephem and the Ephemeris Matcher save_chrono_ephem; and of the     *)
(* Channel Identifier (src/code/sat_channels/window_chan_map.py) and of the *)
(* Gain Calibrator rfe_calibration and the Beam Projector                  *)
(* project_tile_healpix (src/embers/tile_maps/tile_maps.py), with the       *)
(* drivers that hand their units of work to a pool of processes, the offset *)
(* fit chisq_fit_gain / test_chisq_fit and the threshold stage              *)
(* rf_apply_thresholds.                                                     *)
(*                                                                          *)
(* The times of obs_times are whole seconds.  The times of an ephemeris are *)
(* counted in ticks of 1/TicksPerSec second, so that raw times can fall     *)
(* between whole seconds (math.ceil / math.floor act on them) and the       *)
(* resampling step 1/interp_freq is a whole number of ticks; where the code *)
(* compares the two, the seconds are scaled to ticks.                       *)
(* Strings that the code parses or formats are sequences of one-character   *)
(* strings.                                                                 *)
(***************************************************************************)
EXTENDS Integers, Sequences, FiniteSets, TLC

VARIABLES
    time_zone,      \* argument: the pytz zone (a record of its offsets)
    start_date,     \* argument: sequence of characters
    stop_date,      \* argument: sequence of characters
    interp_freq,    \* argument: resampling frequency in Hz
    ephem,          \* ephem_dir: the npz files, in glob order
    files,          \* out_dir: file name -> decoded json content
    pc,             \* position of the run
    err,            \* the exception that ended the run, "none" otherwise
    obs_time,       \* obs_times' first list
    obs_unix,       \* obs_times' second list (seconds)
    obs_unix_end,   \* obs_times' third list (seconds)
    file_idx,       \* index of the npz file being read
    pass_idx,       \* index of the pass within the file (1-based)
    obs_int,        \* index of the window being matched (1-based)
    time_interp,    \* interp_ephem's result for the current pass (ticks)
    sat_alt,
    sat_az,
    printed         \* the lines printed: <<s_id, obs_time>>

vars == <<time_zone, start_date, stop_date, interp_freq, ephem, files, pc, err,
          obs_time, obs_unix, obs_unix_end, file_idx, pass_idx, obs_int,
          time_interp, sat_alt, sat_az, printed>>

(* window_chan_map.py: one call of window_chan_map.  The run shares pc and *)
(* err with the Ephemeris Matcher.                                          *)
VARIABLES
    ref_file,       \* the aligned file of the window: whether it is there,
                    \* its power and its times
    chrono_file,    \* the window's ephemeris file: whether it is there and
                    \* its list of entries
    pow_thresh,     \* --pow_thresh
    occ_thresh,     \* --occ_thresh, in hundredths
    alt_thresh,     \* --alt_thresh
    norad_list,     \* the satellites of the window
    sat_pos,        \* index of the satellite of the loop (1-based)
    channel_map,    \* sat -> channel (channels are 0-based as in the code)
    window_maps     \* out_dir/window_maps/<timestamp>.json, or "none"

chanVars == <<ref_file, chrono_file, pow_thresh, occ_thresh, alt_thresh,
              norad_list, sat_pos, channel_map, window_maps>>

(* tile_maps.py: one call of rfe_calibration, for one tile pair.            *)
VARIABLES
    windows,        \* the windows of the date range, in the order of the
                    \* loops: the pointing, the files and what they hold
    win_pos,        \* index of the window of the loops (1-based)
    chan_sat_ids,   \* the satellites of the channel map of that window
    cali_pos,       \* index of the satellite of the loop (1-based)
    resi_gain,      \* pass_data and pass_resi
    gain_fit        \* out_dir/<tile>_<ref>_gain_fit.json

caliVars == <<windows, win_pos, chan_sat_ids, cali_pos, resi_gain, gain_fit>>

chronoVars == <<time_zone, start_date, stop_date, interp_freq, ephem, files,
                obs_time, obs_unix, obs_unix_end, file_idx, pass_idx, obs_int,
                time_interp, sat_alt, sat_az, printed>>

(* tile_maps.py: one call of project_tile_healpix, for one tile pair.       *)
VARIABLES
    passes,         \* the satellite passes that the loops come to, in order
    pass_pos,       \* index of the pass of the loops (1-based)
    fit_thresh,     \* --fit_thresh: whether it is given, and args.fit_thresh
    rfe_polyfit,    \* np.load(rfe_gain): coefficients, highest power first
    tile_data,      \* mwa_maps, ref_maps, tile_maps, sat_map and times
    sat_maps        \* out_dir/<tile>_<ref>_sat_maps.npz

projVars == <<passes, pass_pos, fit_thresh, rfe_polyfit, tile_data, sat_maps>>

(* The drivers that hand the units of work to a pool of worker processes.   *)
VARIABLES
    program,        \* the driver that runs
    units,          \* the units of work handed to executor.map, in order
    futures,        \* the state of the task of each unit
    written,        \* the writes to the output directory: file name and writer
    collated        \* the files that rfe_collate_cali has read

batchVars == <<program, units, futures, written, collated>>

(* the offset fit and the goodness-of-fit test of one pass (tile_maps.py) *)
VARIABLES
    fit_data,       \* the measured array handed to the fit
    fit_model,      \* the model array handed to the fit
    result,         \* what opt.minimize returned
    fitted,         \* the model array after the offset is added
    shifted         \* the two arrays handed to chisquare, and its p-value

fitVars == <<fit_data, fit_model, result, fitted, shifted>>

(* rf_apply_thresholds on one satellite of a window, and the pixels of its pass *)
VARIABLES
    ali_trace,      \* a channel of the aligned traces: powers, times, noise floors
    norad_ephem,    \* the fragment of the satellite in the ephemeris of the window
    sat_samples,    \* sat_data: what rf_apply_thresholds returned
    healpix_index,  \* the pixels of the returned samples
    times_pass      \* the pixels of the pass and the time recorded for each

threshVars == <<ali_trace, norad_ephem, sat_samples, healpix_index, times_pass>>

allVars == <<vars, chanVars, caliVars, projVars, batchVars, fitVars, threshVars>>

\* what the Ephemeris Matcher, the Channel Identifier and the Gain Calibrator
\* leave alone
otherVars == <<chanVars, caliVars, projVars, batchVars, fitVars, threshVars>>
notChan == <<chronoVars, caliVars, projVars, batchVars, fitVars, threshVars>>
notCali == <<chronoVars, chanVars, projVars, batchVars, fitVars, threshVars>>
notProj == <<chronoVars, chanVars, caliVars, batchVars, fitVars, threshVars>>
notBatch == <<chronoVars, chanVars, caliVars, projVars, fitVars, threshVars>>
notFit == <<chronoVars, chanVars, caliVars, projVars, batchVars, threshVars>>
notThresh == <<chronoVars, chanVars, caliVars, projVars, batchVars, fitVars>>

-----------------------------------------------------------------------------
(* Bounds of the model *)

\* ticks per second: the resolution of raw ephemeris times
TicksPerSec == 2
\* the largest number of raw points of a generated pass
RawMax == 11
\* obs_times is tried on date ranges of up to SpanDays days after a base date
SpanDays == 2

(* Program constants *)

\* range(48): half hour observations in a day
ObsPerDay == 48
\* timedelta(minutes=30 * j) and utc_unix + (30 * 60)
ObsMinutes == 30
\* t_array[pass_idx].shape[0] >= 10
MinPoints == 10

SecPerMin == 60
SecPerDay == 86400

\* a time in seconds, in ticks
Ticks(sec) == sec * TicksPerSec

-----------------------------------------------------------------------------
(* Characters and decimal numerals *)

Digits == <<"0", "1", "2", "3", "4", "5", "6", "7", "8", "9">>

IsDigit(c) == \E k \in 1..10 : Digits[k] = c

DigitVal(c) == (CHOOSE k \in 1..10 : Digits[k] = c) - 1

AllDigits(s) == \A k \in 1..Len(s) : IsDigit(s[k])

RECURSIVE NumVal(_)
NumVal(s) == IF s = <<>> THEN 0
             ELSE 10 * NumVal(SubSeq(s, 1, Len(s) - 1)) + DigitVal(s[Len(s)])

\* "%02d" / "%04d": n in decimal, zero padded to width w
RECURSIVE Pad(_, _)
Pad(n, w) == IF w = 0 THEN <<>>
             ELSE Append(Pad(n \div 10, w - 1), Digits[(n % 10) + 1])

\* s.split(c)
RECURSIVE Split(_, _)
Split(s, c) ==
    IF \A k \in 1..Len(s) : s[k] # c THEN <<s>>
    ELSE LET p == CHOOSE k \in 1..Len(s) :
                      s[k] = c /\ \A q \in 1..(k - 1) : s[q] # c
         IN  <<SubSeq(s, 1, p - 1)>> \o Split(SubSeq(s, p + 1, Len(s)), c)

-----------------------------------------------------------------------------
(* The proleptic Gregorian calendar of datetime *)

IsLeap(y) == (y % 4 = 0) /\ ((y % 100 # 0) \/ (y % 400 = 0))

DaysInMonth(y, m) ==
    IF m = 2 THEN (IF IsLeap(y) THEN 29 ELSE 28)
    ELSE IF m \in {4, 6, 9, 11} THEN 30 ELSE 31

\* days from 1970-01-01 to y-m-d
DaysFromCivil(y, m, d) ==
    LET yy  == IF m <= 2 THEN y - 1 ELSE y
        era == yy \div 400
        yoe == yy - era * 400
        mp  == IF m > 2 THEN m - 3 ELSE m + 9
        doy == (153 * mp + 2) \div 5 + d - 1
        doe == yoe * 365 + yoe \div 4 - yoe \div 100 + doy
    IN  era * 146097 + doe - 719468

\* the date that is z days after 1970-01-01
CivilFromDays(z) ==
    LET zz  == z + 719468
        era == zz \div 146097
        doe == zz - era * 146097
        yoe == (doe - doe \div 1460 + doe \div 36524 - doe \div 146096) \div 365
        doy == doe - (365 * yoe + yoe \div 4 - yoe \div 100)
        mp  == (5 * doy + 2) \div 153
        d   == doy - (153 * mp + 2) \div 5 + 1
        m   == IF mp < 10 THEN mp + 3 ELSE mp - 9
        y   == yoe + era * 400 + (IF m <= 2 THEN 1 ELSE 0)
    IN  [y |-> y, m |-> m, d |-> d]

(* A naive datetime is the number of seconds from 1970-01-01T00:00 on its   *)
(* own clock.                                                               *)

\* the directive %Y of strptime: exactly four digits
MatchesY(f) == Len(f) = 4 /\ AllDigits(f)

\* the directive %m of strptime: 1[0-2]|0[1-9]|[1-9]
MatchesM(f) == /\ Len(f) \in {1, 2}
               /\ AllDigits(f)
               /\ NumVal(f) \in 1..12

\* the directive %d of strptime: 3[01]|[12]\d|0[1-9]|[1-9]
MatchesD(f) == /\ Len(f) \in {1, 2}
               /\ AllDigits(f)
               /\ NumVal(f) \in 1..31

\* a variant that takes any day up to 31 in every month
StrptimeAnyDay(s) ==
    LET f == Split(s, "-") IN
    IF Len(f) # 3 THEN [ok |-> FALSE, t |-> 0]
    ELSE IF ~(MatchesY(f[1]) /\ MatchesM(f[2]) /\ MatchesD(f[3]))
         THEN [ok |-> FALSE, t |-> 0]
    ELSE IF NumVal(f[1]) < 1 THEN [ok |-> FALSE, t |-> 0]
    ELSE [ok |-> TRUE,
          t |-> DaysFromCivil(NumVal(f[1]), NumVal(f[2]), NumVal(f[3])) * SecPerDay]

\* datetime.strptime(s, "%Y-%m-%d"): ok is FALSE where it raises ValueError
Strptime(s) ==
    LET f == Split(s, "-") IN
    IF Len(f) # 3 THEN [ok |-> FALSE, t |-> 0]
    ELSE IF ~(MatchesY(f[1]) /\ MatchesM(f[2]) /\ MatchesD(f[3]))
         THEN [ok |-> FALSE, t |-> 0]
    ELSE LET y == NumVal(f[1])
             m == NumVal(f[2])
             d == NumVal(f[3])
         IN  IF y < 1 \/ d > DaysInMonth(y, m) THEN [ok |-> FALSE, t |-> 0]
             ELSE [ok |-> TRUE, t |-> DaysFromCivil(y, m, d) * SecPerDay]

\* (t_stop - t_start).days
DeltaDays(t_stop, t_start) == (t_stop - t_start) \div SecPerDay

\* "%Y-%m-%d" of the date c, for the years 1000..9999
FormatDate(c) ==
    Pad(c.y, 4) \o <<"-">> \o Pad(c.m, 2) \o <<"-">> \o Pad(c.d, 2)

\* day.strftime("%Y-%m-%d")
StrftimeDate(t) == FormatDate(CivilFromDays(t \div SecPerDay))

\* t_delta.strftime("%Y-%m-%d-%H:%M")
StrftimeObs(t) ==
    LET s == t % SecPerDay
    IN  StrftimeDate(t) \o <<"-">> \o Pad(s \div 3600, 2)
            \o <<":">> \o Pad((s % 3600) \div SecPerMin, 2)

-----------------------------------------------------------------------------
(* pytz.  A zone is [name, off0, at, off1]: its UTC offset is off0 seconds   *)
(* before the UTC instant at (seconds) and off1 from then on; a zone without *)
(* a change of offset has off0 = off1.                                      *)

UtcOffset(z, u) == IF u < z.at THEN z.off0 ELSE z.off1

(* local.localize(t, is_dst=None): the offsets in force a day before and a  *)
(* day after t are tried; t is kept under an offset when the instant it     *)
(* gives has that offset.  None fits: NonExistentTimeError; both fit:       *)
(* AmbiguousTimeError.                                                      *)
Localize(z, t) ==
    LET tried == {UtcOffset(z, t - SecPerDay), UtcOffset(z, t + SecPerDay)}
        fits  == {o \in tried : UtcOffset(z, t - o) = o}
    IN  IF fits = {} THEN [err |-> "NonExistentTimeError", utc |-> 0]
        ELSE IF Cardinality(fits) > 1
             THEN [err |-> "AmbiguousTimeError", utc |-> 0]
        ELSE [err |-> "none", utc |-> t - (CHOOSE o \in fits : TRUE)]

\* utc_delta.timestamp()
Timestamp(utc) == utc

-----------------------------------------------------------------------------
(* obs_times *)

EmptyObs == [err |-> "none", obs_time |-> <<>>, obs_unix |-> <<>>,
             obs_unix_end |-> <<>>]

(* One turn of "for j in range(48)": what it appends to the three lists,   *)
(* or the exception that ends it.  d_time is the id of the window and loc   *)
(* what localize gave for its start.                                        *)
ObsAppend(d_time, loc) ==
    IF loc.err # "none"
    THEN [err |-> loc.err, d_time |-> d_time, utc_unix |-> 0, utc_unix_end |-> 0]
    ELSE [err |-> "none", d_time |-> d_time,
          utc_unix |-> Timestamp(loc.utc),
          utc_unix_end |-> Timestamp(loc.utc) + ObsMinutes * SecPerMin]

\* t_delta = datetime.strptime(date, "%Y-%m-%d") + timedelta(minutes=30 * j)
ObsAt(z, p, j) ==
    IF ~p.ok
    THEN [err |-> "ValueError", d_time |-> <<>>, utc_unix |-> 0, utc_unix_end |-> 0]
    ELSE ObsAppend(StrftimeObs(p.t + ObsMinutes * j * SecPerMin),
                   Localize(z, p.t + ObsMinutes * j * SecPerMin))

ObsSlot(z, date, j) == ObsAt(z, Strptime(date), j)

(* "for j in range(48)" over its turns: those before the first one that     *)
(* raises append to the lists acc.                                          *)
ObsCollect(turn, acc) ==
    LET bad == {j \in 0..(ObsPerDay - 1) : turn[j].err # "none"}
        n   == IF bad = {} THEN ObsPerDay
               ELSE CHOOSE j \in bad : \A q \in bad : j <= q
    IN  [err |-> IF bad = {} THEN "none" ELSE turn[n].err,
         obs_time |-> acc.obs_time \o [k \in 1..n |-> turn[k - 1].d_time],
         obs_unix |-> acc.obs_unix \o [k \in 1..n |-> turn[k - 1].utc_unix],
         obs_unix_end |->
             acc.obs_unix_end \o [k \in 1..n |-> turn[k - 1].utc_unix_end]]

ObsLoop(z, date, acc) ==
    ObsCollect([j \in 0..(ObsPerDay - 1) |-> ObsSlot(z, date, j)], acc)

\* the body of "for i in range(n_days + 1)", from i on
RECURSIVE DayLoop(_, _, _, _, _)
DayNext(z, t_start, i, n_days, done) ==
    IF done.err # "none" THEN done
    ELSE DayLoop(z, t_start, i + 1, n_days, done)

DayLoop(z, t_start, i, n_days, acc) ==
    IF i >= n_days + 1 THEN acc
    ELSE DayNext(z, t_start, i, n_days,
                 ObsLoop(z, StrftimeDate(t_start + i * SecPerDay), acc))

ObsRange(z, t_start, t_stop) ==
    IF ~t_start.ok \/ ~t_stop.ok THEN [EmptyObs EXCEPT !.err = "ValueError"]
    ELSE DayLoop(z, t_start.t, 0, DeltaDays(t_stop.t, t_start.t), EmptyObs)

obs_times(z, sd, ed) == ObsRange(z, Strptime(sd), Strptime(ed))

-----------------------------------------------------------------------------
(* interp_ephem.  The interpolants of scipy are left uninterpreted: the     *)
(* sample AltAt(t) stands for alt_interp(t) and AzAt(t) for                 *)
(* az_interp(t) % (2 * np.pi).                                              *)

AltAt(t) == <<"alt", t>>
AzAt(t) == <<"az", t>>

\* math.ceil and math.floor of a time in ticks, as ticks
CeilSec(t) == ((t + TicksPerSec - 1) \div TicksPerSec) * TicksPerSec
FloorSec(t) == (t \div TicksPerSec) * TicksPerSec

\* 1 / interp_freq, in ticks
Step(freq) == TicksPerSec \div freq

\* np.arange(start, stop, step): start + k * step for those below stop
Arange(start, stop, step) ==
    LET n == IF stop > start THEN (stop - start + step - 1) \div step ELSE 0
    IN  [k \in 1..n |-> start + (k - 1) * step]

\* sat_alt = list(alt_interp(time_interp)), and sat_az
Evaluate(ti) ==
    [time_interp |-> ti,
     sat_alt |-> [k \in 1..Len(ti) |-> AltAt(ti[k])],
     sat_az  |-> [k \in 1..Len(ti) |-> AzAt(ti[k])]]

interp_ephem(t, freq) ==
    Evaluate(Arange(CeilSec(t[1]), FloorSec(t[Len(t)]), Step(freq)))

-----------------------------------------------------------------------------
(* save_chrono_ephem *)

JsonName(id) == id \o <<".", "j", "s", "o", "n">>

\* write_json(data, filename): the file is created or overwritten
write_json(fs, data, name) ==
    [f \in (DOMAIN fs) \cup {name} |-> IF f = name THEN data ELSE fs[f]]

\* a variant that leaves a file that exists as it is
WriteEmptyIfNew(fs, ids) ==
    LET names == {JsonName(ids[i]) : i \in 1..Len(ids)}
    IN  [f \in (DOMAIN fs) \cup names |-> IF f \in DOMAIN fs THEN fs[f] ELSE <<>>]

\* "for i in range(len(obs_time)): write_json([], ...)"
WriteEmpty(fs, ids) ==
    LET names == {JsonName(ids[i]) : i \in 1..Len(ids)}
    IN  [f \in (DOMAIN fs) \cup names |-> IF f \in names THEN <<>> ELSE fs[f]]

\* (np.where(np.asarray(a) == x))[0][0], 1-based; 0 where it raises IndexError
IndexOf(a, x) ==
    IF \E k \in 1..Len(a) : a[k] = x
    THEN CHOOSE k \in 1..Len(a) : a[k] = x /\ \A q \in 1..(k - 1) : a[q] # x
    ELSE 0

First(a) == a[1]
Last(a) == a[Len(a)]

\* Case I: Satpass occurs completely within the 30min observation
CaseI(ti, s, e) == s < First(ti) /\ e > Last(ti)

\* a variant without the test on the end of the pass
CaseIIOpen(ti, s, e) == s > First(ti) /\ s < Last(ti)

\* Case II: Satpass begins before the obs, but ends within it
CaseII(ti, s, e) == s > First(ti) /\ s < Last(ti) /\ e > Last(ti)

\* Case III: Satpass begins within the obs, but ends after it
CaseIII(ti, s, e) == e > First(ti) /\ e < Last(ti) /\ s < First(ti)

\* a variant: a[start_idx + 1:]
SuffixLate(a, start_idx) == SubSeq(a, start_idx + 1, Len(a))

\* a[start_idx:] with start_idx 1-based
Suffix(a, start_idx) == SubSeq(a, start_idx, Len(a))

\* a variant: a[: stop_idx + 2]
PrefixLong(a, stop_idx) == SubSeq(a, 1, stop_idx + 1)

\* a[: stop_idx + 1] with stop_idx 1-based
Prefix(a, stop_idx) == SubSeq(a, 1, stop_idx)

EmptyEphem(s_id) ==
    [sat_id |-> <<s_id>>, time_array |-> <<>>, sat_alt |-> <<>>, sat_az |-> <<>>]

(* The dictionary sat_ephem that the loop body builds for one window        *)
(* [s, e]; ok is FALSE where np.where finds no index (IndexError).          *)
Fragment(s_id, ti, alt, az, s, e) ==
    IF CaseI(ti, s, e)
    THEN [ok |-> TRUE,
          eph |-> [sat_id |-> <<s_id>>, time_array |-> ti,
                   sat_alt |-> alt, sat_az |-> az]]
    ELSE IF CaseII(ti, s, e)
    THEN LET start_idx == IndexOf(ti, s) IN
         IF start_idx = 0 THEN [ok |-> FALSE, eph |-> EmptyEphem(s_id)]
         ELSE [ok |-> TRUE,
               eph |-> [sat_id |-> <<s_id>>,
                        time_array |-> Suffix(ti, start_idx),
                        sat_alt |-> Suffix(alt, start_idx),
                        sat_az |-> Suffix(az, start_idx)]]
    ELSE IF CaseIII(ti, s, e)
    THEN LET stop_idx == IndexOf(ti, e) IN
         IF stop_idx = 0 THEN [ok |-> FALSE, eph |-> EmptyEphem(s_id)]
         ELSE [ok |-> TRUE,
               eph |-> [sat_id |-> <<s_id>>,
                        time_array |-> Prefix(ti, stop_idx),
                        sat_alt |-> Prefix(alt, stop_idx),
                        sat_az |-> Prefix(az, stop_idx)]]
    ELSE [ok |-> TRUE, eph |-> EmptyEphem(s_id)]

-----------------------------------------------------------------------------
(* The runs that are checked *)

Perth == [name |-> "Australia/Perth", off0 |-> 28800, at |-> 0, off1 |-> 28800]

\* clocks go forward an hour on 1972-03-19 at 02:00 GMT
LondonSpring ==
    [name |-> "Europe/London", off0 |-> 0,
     at |-> DaysFromCivil(1972, 3, 19) * SecPerDay + 2 * 3600, off1 |-> 3600]

\* clocks go back an hour on 1972-10-29 at 03:00 BST
LondonAutumn ==
    [name |-> "Europe/London", off0 |-> 3600,
     at |-> DaysFromCivil(1972, 10, 29) * SecPerDay + 2 * 3600, off1 |-> 0]

\* clocks go back twenty minutes on 1941-12-14 at 00:00 (from UTC+8:20)
Kuching ==
    [name |-> "Asia/Kuching", off0 |-> 30000,
     at |-> DaysFromCivil(1941, 12, 13) * SecPerDay + 15 * 3600 + 40 * SecPerMin,
     off1 |-> 28800]

\* the dates from y-m-d on, as strings
DatesFrom(y, m, d, n) ==
    {StrftimeDate((DaysFromCivil(y, m, d) + k) * SecPerDay) : k \in 0..n}

\* strings that are not dates in YYYY-MM-DD form
Malformed ==
    { <<"1", "9", "7", "2", "-", "0", "2", "-", "3", "0">>,
      <<"1", "9", "7", "2", "-", "2", "-", "2", "9">>,
      <<"7", "2", "-", "0", "2", "-", "2", "9">>,
      <<"1", "9", "7", "2", "-", "0", "2">>,
      <<"1", "9", "7", "2", "/", "0", "2", "/", "2", "9">> }

ObsRuns ==
    [zone : {Perth}, dates : {DatesFrom(1972, 2, 28, SpanDays) \cup Malformed}]
    \cup [zone : {LondonSpring}, dates : {DatesFrom(1972, 3, 18, SpanDays)}]
    \cup [zone : {LondonAutumn}, dates : {DatesFrom(1972, 10, 28, SpanDays)}]
    \cup [zone : {Kuching}, dates : {DatesFrom(1941, 12, 13, SpanDays)}]

\* the day of the matcher's runs, and the start of its first window (ticks)
MainDate == StrftimeDate(DaysFromCivil(1972, 2, 29) * SecPerDay)
MainId == StrftimeObs(DaysFromCivil(1972, 2, 29) * SecPerDay)
S0 == Ticks(DaysFromCivil(1972, 2, 29) * SecPerDay - Perth.off0)

\* a raw pass of n points, dt ticks apart, from t0 on
RawPass(t0, n, dt) == [k \in 1..n |-> t0 + (k - 1) * dt]

\* first raw time: seconds after S0
Starts == {0 - 700, 0 - 4, 0, 1791, 1796, 1800, 86396}
\* raw cadence in seconds
Cadences == {1, 60, 181}

Shapes ==
    {RawPass(S0 + sec * TicksPerSec + f, n, dt * TicksPerSec) :
        sec \in Starts, f \in {0, 1}, n \in (MinPoints - 1)..RawMax,
        dt \in Cadences}

\* the second satellite: a pass too short to keep, and one across 00:30
OtherSat ==
    [sat_id |-> "sat2",
     time_array |-> << RawPass(S0 + 100 * TicksPerSec, MinPoints - 1, TicksPerSec),
                       RawPass(S0 + 1795 * TicksPerSec, MinPoints, TicksPerSec) >>]

\* the window of 12:00 on that day, which no pass of these runs reaches
NoonId == StrftimeObs(DaysFromCivil(1972, 2, 29) * SecPerDay + 12 * 3600)

Stale == [sat_id |-> <<"old">>, time_array |-> <<S0>>,
          sat_alt |-> <<AltAt(S0)>>, sat_az |-> <<AzAt(S0)>>]

\* out_dir before the run: what an earlier run left for two of the windows
OldFiles == [f \in {JsonName(MainId), JsonName(NoonId)} |-> <<Stale>>]

Freqs == {f \in 1..TicksPerSec : TicksPerSec % f = 0}

\* window_chan_map is not run
IdleChan ==
    /\ ref_file = <<>>
    /\ chrono_file = <<>>
    /\ pow_thresh = 0
    /\ occ_thresh = 0
    /\ alt_thresh = 0
    /\ norad_list = <<>>
    /\ sat_pos = 0
    /\ channel_map = <<>>
    /\ window_maps = "none"

\* rfe_calibration is not run
IdleCali ==
    /\ windows = <<>>
    /\ win_pos = 0
    /\ chan_sat_ids = <<>>
    /\ cali_pos = 0
    /\ resi_gain = <<>>
    /\ gain_fit = <<>>

\* project_tile_healpix is not run
IdleProj ==
    /\ passes = <<>>
    /\ pass_pos = 0
    /\ fit_thresh = <<>>
    /\ rfe_polyfit = <<>>
    /\ tile_data = <<>>
    /\ sat_maps = <<>>

\* the drivers that hand the units of work to a pool of worker processes: not run
IdleBatch ==
    /\ program = <<>>
    /\ units = <<>>
    /\ futures = <<>>
    /\ written = <<>>
    /\ collated = <<>>

\* the offset fit and the goodness-of-fit test of one pass (tile_maps.py): not run
IdleFit ==
    /\ fit_data = <<>>
    /\ fit_model = <<>>
    /\ result = <<>>
    /\ fitted = <<>>
    /\ shifted = <<>>

\* rf_apply_thresholds on one satellite of a window, and the pixels of its pass: not run
IdleThresh ==
    /\ ali_trace = <<>>
    /\ norad_ephem = <<>>
    /\ sat_samples = <<>>
    /\ healpix_index = <<>>
    /\ times_pass = <<>>

IdleOthers == IdleChan /\ IdleCali /\ IdleProj /\ IdleBatch /\ IdleFit /\ IdleThresh

InitCommon ==
    /\ files = OldFiles
    /\ pc = "start"
    /\ err = "none"
    /\ obs_time = <<>>
    /\ obs_unix = <<>>
    /\ obs_unix_end = <<>>
    /\ file_idx = 0
    /\ pass_idx = 0
    /\ obs_int = 0
    /\ time_interp = <<>>
    /\ sat_alt = <<>>
    /\ sat_az = <<>>
    /\ printed = <<>>
    /\ IdleOthers

\* obs_times on its own
InitObs ==
    /\ \E r \in ObsRuns :
          /\ time_zone = r.zone
          /\ start_date \in r.dates
          /\ stop_date \in r.dates
    /\ interp_freq = 1
    /\ ephem = <<>>
    /\ InitCommon

\* save_chrono_ephem
Init ==
    /\ \/ /\ time_zone = Perth
          /\ start_date = MainDate
          /\ stop_date = MainDate
          /\ \E p \in Shapes :
                ephem = <<[sat_id |-> "sat1", time_array |-> <<p>>], OtherSat>>
          /\ interp_freq \in Freqs
       \/ /\ \/ time_zone = Perth /\ start_date \in Malformed
             \/ time_zone = LondonSpring
                   /\ start_date \in DatesFrom(1972, 3, 19, 0)
          /\ stop_date = start_date
          /\ ephem = <<OtherSat>>
          /\ interp_freq = 1
    /\ InitCommon

-----------------------------------------------------------------------------
(* The steps of save_chrono_ephem *)

\* obs_time, obs_unix, obs_unix_end = obs_times(time_zone, start_date, stop_date)
Unpack(r) ==
    /\ err' = r.err
    /\ obs_time' = r.obs_time
    /\ obs_unix' = r.obs_unix
    /\ obs_unix_end' = r.obs_unix_end
    /\ pc' = IF r.err = "none" THEN "mkfiles" ELSE "raised"

CallObsTimes ==
    /\ UNCHANGED otherVars
    /\ pc = "start"
    /\ Unpack(obs_times(time_zone, start_date, stop_date))
    /\ UNCHANGED <<time_zone, start_date, stop_date, interp_freq, ephem, files,
                   file_idx, pass_idx, obs_int, time_interp, sat_alt, sat_az, printed>>

\* one json file for each 30 min observation, with an empty list
MakeFiles ==
    /\ UNCHANGED otherVars
    /\ pc = "mkfiles"
    /\ files' = WriteEmpty(files, obs_time)
    /\ file_idx' = 1
    /\ pc' = "files"
    /\ UNCHANGED <<time_zone, start_date, stop_date, interp_freq, ephem, err,
                   obs_time, obs_unix, obs_unix_end, pass_idx, obs_int,
                   time_interp, sat_alt, sat_az, printed>>

\* for ephem_npz in ...: np.load
NextFile ==
    /\ UNCHANGED otherVars
    /\ pc = "files"
    /\ file_idx <= Len(ephem)
    /\ pass_idx' = 1
    /\ pc' = "passes"
    /\ UNCHANGED <<time_zone, start_date, stop_date, interp_freq, ephem, files,
                   err, obs_time, obs_unix, obs_unix_end, file_idx, obs_int,
                   time_interp, sat_alt, sat_az, printed>>

Finish ==
    /\ UNCHANGED otherVars
    /\ pc = "files"
    /\ file_idx > Len(ephem)
    /\ pc' = "done"
    /\ UNCHANGED <<time_zone, start_date, stop_date, interp_freq, ephem, files,
                   err, obs_time, obs_unix, obs_unix_end, file_idx, pass_idx,
                   obs_int, time_interp, sat_alt, sat_az, printed>>

t_array == ephem[file_idx].time_array
s_id == ephem[file_idx].sat_id

\* a variant: shape[0] > 10
LongerThanMin(p) == Len(p) > MinPoints

\* if t_array[pass_idx].shape[0] >= 10
LongEnough(p) == Len(p) >= MinPoints

\* a pass with fewer points is passed over
SkipPass ==
    /\ UNCHANGED otherVars
    /\ pc = "passes"
    /\ pass_idx <= Len(t_array)
    /\ ~LongEnough(t_array[pass_idx])
    /\ pass_idx' = pass_idx + 1
    /\ UNCHANGED <<time_zone, start_date, stop_date, interp_freq, ephem, files,
                   pc, err, obs_time, obs_unix, obs_unix_end, file_idx, obs_int,
                   time_interp, sat_alt, sat_az, printed>>

Resampled(r) ==
    /\ time_interp' = r.time_interp
    /\ sat_alt' = r.sat_alt
    /\ sat_az' = r.sat_az

\* time_interp, sat_alt, sat_az = interp_ephem(...)
Interp ==
    /\ UNCHANGED otherVars
    /\ pc = "passes"
    /\ pass_idx <= Len(t_array)
    /\ LongEnough(t_array[pass_idx])
    /\ Resampled(interp_ephem(t_array[pass_idx], interp_freq))
    /\ obs_int' = 1
    /\ pc' = "match"
    /\ UNCHANGED <<time_zone, start_date, stop_date, interp_freq, ephem, files,
                   err, obs_time, obs_unix, obs_unix_end, file_idx, pass_idx,
                   printed>>

EndFile ==
    /\ UNCHANGED otherVars
    /\ pc = "passes"
    /\ pass_idx > Len(t_array)
    /\ file_idx' = file_idx + 1
    /\ pc' = "files"
    /\ UNCHANGED <<time_zone, start_date, stop_date, interp_freq, ephem, files,
                   err, obs_time, obs_unix, obs_unix_end, pass_idx, obs_int,
                   time_interp, sat_alt, sat_az, printed>>

\* the end of the loop body: the print and the rewrite of the window's file
\* a variant that writes the new entry alone
OnlyEntry(data_json, sat_ephem) == <<sat_ephem>>

\* data_json.append(sat_ephem)
AppendEntry(data_json, sat_ephem) == Append(data_json, sat_ephem)

Store(r, name) ==
    IF ~r.ok
    THEN /\ err' = "IndexError"
         /\ pc' = "raised"
         /\ UNCHANGED <<files, obs_int, printed>>
    ELSE /\ IF r.eph.time_array # <<>>
            THEN /\ printed' = Append(printed, <<s_id, obs_time[obs_int]>>)
                 /\ files' = write_json(files, AppendEntry(files[name], r.eph), name)
            ELSE UNCHANGED <<files, printed>>
         /\ obs_int' = obs_int + 1
         /\ UNCHANGED <<pc, err>>

\* the body of "for obs_int in range(len(obs_unix))"
Match ==
    /\ UNCHANGED otherVars
    /\ pc = "match"
    /\ obs_int <= Len(obs_unix)
    /\ IF time_interp = <<>>
       THEN /\ err' = "IndexError"
            /\ pc' = "raised"
            /\ UNCHANGED <<files, obs_int, printed>>
       ELSE Store(Fragment(s_id, time_interp, sat_alt, sat_az,
                           Ticks(obs_unix[obs_int]), Ticks(obs_unix_end[obs_int])),
                  JsonName(obs_time[obs_int]))
    /\ UNCHANGED <<time_zone, start_date, stop_date, interp_freq, ephem,
                   obs_time, obs_unix, obs_unix_end, file_idx, pass_idx,
                   time_interp, sat_alt, sat_az>>

EndPass ==
    /\ UNCHANGED otherVars
    /\ pc = "match"
    /\ obs_int > Len(obs_unix)
    /\ pass_idx' = pass_idx + 1
    /\ pc' = "passes"
    /\ UNCHANGED <<time_zone, start_date, stop_date, interp_freq, ephem, files,
                   err, obs_time, obs_unix, obs_unix_end, file_idx, obs_int,
                   time_interp, sat_alt, sat_az, printed>>

Next ==
    \/ CallObsTimes
    \/ MakeFiles
    \/ NextFile
    \/ Finish
    \/ SkipPass
    \/ Interp
    \/ EndFile
    \/ Match
    \/ EndPass

Spec == Init /\ [][Next]_vars

NextObs == CallObsTimes

SpecObs == InitObs /\ [][NextObs]_vars

-----------------------------------------------------------------------------
(* Properties of obs_times, checked under SpecObs *)

Numeral == <<"0", "1", "2", "3", "4", "5", "6", "7", "8", "9">>
TwoDigits(n) == <<Numeral[(n \div 10) + 1], Numeral[(n % 10) + 1]>>
YearOf(s) == NumVal(SubSeq(s, 1, 4))

\* s is the date of day d of month m, written YYYY-MM-DD
IsYMD(s, m, d) ==
    /\ d <= DaysInMonth(YearOf(s), m)
    /\ s = SubSeq(s, 1, 4) \o <<"-">> \o TwoDigits(m) \o <<"-">> \o TwoDigits(d)

\* s is a calendar date written YYYY-MM-DD
IsoDate(s) ==
    /\ Len(s) = 10
    /\ AllDigits(SubSeq(s, 1, 4))
    /\ YearOf(s) >= 1
    /\ \E m \in 1..12, d \in 1..31 : IsYMD(s, m, d)

\* the day number of an IsoDate
DayNumber(s) ==
    DaysFromCivil(YearOf(s), NumVal(SubSeq(s, 6, 7)), NumVal(SubSeq(s, 9, 10)))

\* obs_times has been called with two dates d1 <= d2
CalledInOrder ==
    /\ pc # "start"
    /\ IsoDate(start_date)
    /\ IsoDate(stop_date)
    /\ DayNumber(start_date) <= DayNumber(stop_date)

\* three lists of n entries, each window 1800 s long
ListsOf(n) ==
    /\ err = "none"
    /\ Len(obs_time) = n
    /\ Len(obs_unix) = n
    /\ Len(obs_unix_end) = n
    /\ \A i \in 1..n : obs_unix_end[i] - obs_unix[i] = 1800

(* C1: for every time zone and every pair of dates d1 <= d2, obs_times      *)
(* returns three lists of the same length 48 * (days(d1, d2) + 1), and      *)
(* every window has obs_unix_end - obs_unix = 1800 seconds.                 *)
C1_WindowLists ==
    CalledInOrder =>
        ListsOf(48 * (DayNumber(stop_date) - DayNumber(start_date) + 1))

(* C2: in the lists obs_times returns, each window starts where the one     *)
(* before it ends, obs_unix[i + 1] = obs_unix_end[i], also across midnight  *)
(* and in a zone whose UTC offset changes inside the date range.            *)
C2_Contiguous ==
    (pc # "start" /\ err = "none") =>
        \A i \in 1..(Len(obs_unix) - 1) : obs_unix[i + 1] = obs_unix_end[i]

-----------------------------------------------------------------------------
(* Properties of save_chrono_ephem, checked under Spec *)

Windows == 1..Len(obs_unix)
WinStart(i) == Ticks(obs_unix[i])
WinEnd(i) == Ticks(obs_unix_end[i])
WinFile(i) == JsonName(obs_time[i])

\* a pass from a to b and a window from s to e: the pass reaches into the
\* window [s, e); it starts before the window and ends after it; and the
\* three overlaps that are handled
Touches(a, b, s, e) == a < e /\ b >= s
Wide(a, b, s, e) == a < s /\ b > e
Within(a, b, s, e) == s < a /\ b < e
EndsWithin(a, b, s, e) == a < s /\ s < b /\ b < e
StartsWithin(a, b, s, e) == s < a /\ a < e /\ e < b
Handled(a, b, s, e) ==
    Within(a, b, s, e) \/ EndsWithin(a, b, s, e) \/ StartsWithin(a, b, s, e)

\* the resampled pass is about to be matched with window obs_int
Matching == pc = "match" /\ obs_int \in Windows /\ time_interp # <<>>
\* the resampled pass has been matched with every window
AtPassEnd == pc = "match" /\ obs_int > Len(obs_unix) /\ time_interp # <<>>

TouchesWin(i) ==
    Touches(First(time_interp), Last(time_interp), WinStart(i), WinEnd(i))
WideWin(i) ==
    Wide(First(time_interp), Last(time_interp), WinStart(i), WinEnd(i))
HandledWin(i) ==
    Handled(First(time_interp), Last(time_interp), WinStart(i), WinEnd(i))

\* the step appends one fragment of the current satellite to the file
AppendsTo(name) ==
    /\ name \in DOMAIN files'
    /\ Len(files'[name]) = Len(files[name]) + 1
    /\ Last(files'[name]).sat_id = <<s_id>>
    /\ Last(files'[name]).time_array # <<>>

(* C3: a window that the interval of the resampled pass reaches into gets   *)
(* exactly one fragment of the pass appended, unless the pass both starts   *)
(* before the window and ends after it; this includes a first sample        *)
(* exactly on start_unix and a last sample exactly on end_unix.             *)
C3_OneFragment ==
    [][(Matching /\ TouchesWin(obs_int) /\ ~WideWin(obs_int))
          => AppendsTo(WinFile(obs_int))]_vars

Range(a) == {a[k] : k \in 1..Len(a)}

\* the windows that the resampled pass reaches into
Touched == {i \in Windows : TouchesWin(i)}

\* the pass reaches into a window, and each such window is a handled overlap
AllHandled == AtPassEnd /\ Touched # {} /\ \A i \in Touched : HandledWin(i)

\* fr holds the entries lo..hi of the resampled pass
SliceFrom(fr, lo, hi) ==
    /\ hi <= Len(time_interp)
    /\ fr.time_array = SubSeq(time_interp, lo, hi)
    /\ fr.sat_alt = SubSeq(sat_alt, lo, hi)
    /\ fr.sat_az = SubSeq(sat_az, lo, hi)

IsSlice(fr) ==
    /\ fr.time_array # <<>>
    /\ \E lo \in {k \in 1..Len(time_interp) : time_interp[k] = fr.time_array[1]} :
          SliceFrom(fr, lo, lo + Len(fr.time_array) - 1)

\* the last entry of the window's file is a fragment cut from the pass
HasSlice(i) ==
    /\ files[WinFile(i)] # <<>>
    /\ Last(files[WinFile(i)]).sat_id = <<s_id>>
    /\ IsSlice(Last(files[WinFile(i)]))

\* the times of the fragments in the windows W
StoredTimes(W) == UNION {Range(Last(files[WinFile(i)]).time_array) : i \in W}

\* the resampled times that lie in one of the windows W, ends included
TimesInside(W) ==
    {t \in Range(time_interp) : \E i \in W : WinStart(i) <= t /\ t <= WinEnd(i)}

(* C4, as the claim states it: for a pass that is a handled overlap in each *)
(* window it reaches into, every fragment is a contiguous run of the        *)
(* resampled times with the altitudes and azimuths of the same indices, and *)
(* the fragments of those windows together hold the whole resampled pass.   *)
C4_WholePass ==
    AllHandled =>
        /\ \A i \in Touched : HasSlice(i)
        /\ StoredTimes(Touched) = Range(time_interp)

(* C4, amended: ... and the fragments of those windows together hold the    *)
(* resampled samples that lie in one of those windows, from start_unix to   *)
(* end_unix; what the pass has outside the date range is stored nowhere.    *)
C4_Slices ==
    AllHandled =>
        /\ \A i \in Touched : HasSlice(i)
        /\ StoredTimes(Touched) = TimesInside(Touched)

\* a pass across a window boundary has been cut into two fragments
C4_Reached ==
    /\ AllHandled
    /\ Cardinality(Touched) = 2
    /\ \A i \in Touched : HasSlice(i)

\* the run has written the empty files
Running == pc \in {"files", "passes", "match", "done"}

\* the windows with an entry in their file
Used == {i \in Windows : files[WinFile(i)] # <<>>}

SamplesOf(fr) == {<<fr.sat_id, t>> : t \in Range(fr.time_array)}
\* the samples stored for window i
SamplesIn(i) == UNION {SamplesOf(fr) : fr \in Range(files[WinFile(i)])}

(* C5, as the claim states it: every sample stored for a window has         *)
(* start_unix <= t < end_unix, and no sample is stored for two windows.     *)
C5_HalfOpen ==
    Running =>
        /\ \A i \in Used : \A x \in SamplesIn(i) :
              WinStart(i) <= x[2] /\ x[2] < WinEnd(i)
        /\ \A i, j \in Used : i < j => SamplesIn(i) \cap SamplesIn(j) = {}

\* every time of the fragment lies in window i, ends included
InWindow(fr, i) ==
    \A k \in 1..Len(fr.time_array) :
        WinStart(i) <= fr.time_array[k] /\ fr.time_array[k] <= WinEnd(i)

\* every sample that the files fs hold for a window lies in the window
StoredInWindows(fs) ==
    \A i \in Windows : \A k \in 1..Len(fs[WinFile(i)]) :
        InWindow(fs[WinFile(i)][k], i)

\* no window starts before an earlier one ends
InOrder == \A i \in Windows : \A j \in Windows : i < j => WinEnd(i) <= WinStart(j)

(* C5, amended: every sample stored for a window has                        *)
(* start_unix <= t <= end_unix, after each step of the run that writes a    *)
(* file; no window starts before the one before it ends, so a sample is     *)
(* stored for two windows only where it lies on the end_unix of the one     *)
(* and the start_unix of the other.                                         *)
C5_Closed ==
    [][(pc # "start" /\ files' # files) => (StoredInWindows(files') /\ InOrder)]_vars

\* the sample on a boundary is stored for both windows
C5_Reached ==
    /\ Running
    /\ \E i, j \in Used : i < j /\ SamplesIn(i) \cap SamplesIn(j) # {}

(* C6: where the resampled pass starts before a window and ends after it,   *)
(* nothing is appended to the file of that window.                          *)
C6_WidePass ==
    [][(Matching /\ WideWin(obs_int)) => files' = files]_vars

\* a pass wider than the window before obs_int has been matched with it
C6_Reached ==
    /\ pc = "match"
    /\ time_interp # <<>>
    /\ (obs_int - 1) \in Windows
    /\ WideWin(obs_int - 1)

\* the grid from lo up to hi, hi included
FullGrid(ti, lo, hi, step) ==
    /\ Len(ti) = ((hi - lo) \div step) + 1
    /\ \A k \in 1..Len(ti) : ti[k] = lo + (k - 1) * step
    /\ (hi - lo = Ticks(600) /\ interp_freq = 1) => Len(ti) = 601

(* C7: the resampled grid runs from ceil(t[0]) up to and including          *)
(* floor(t[-1]) in steps of 1/interp_freq, so a pass of exactly 600 s at    *)
(* 1 Hz gives 601 points; times, altitudes and azimuths have equal length.  *)
C7_Grid ==
    pc = "match" =>
        /\ FullGrid(time_interp, CeilSec(First(t_array[pass_idx])),
                    FloorSec(Last(t_array[pass_idx])), Step(interp_freq))
        /\ Len(sat_alt) = Len(time_interp)
        /\ Len(sat_az) = Len(time_interp)

\* the loop over the passes of a file is at pass pass_idx
AtPass == pc = "passes" /\ pass_idx <= Len(t_array)

PassedOver ==
    /\ pc' = "passes"
    /\ pass_idx' = pass_idx + 1
    /\ UNCHANGED <<files, time_interp, sat_alt, sat_az>>

ResampledAndMatched(p) ==
    /\ pc' = "match"
    /\ obs_int' = 1
    /\ pass_idx' = pass_idx
    /\ time_interp' = interp_ephem(p, interp_freq).time_interp

SpanOf(ti) == <<First(ti), Last(ti)>>
PassesOf(f) == {ephem[f].time_array[p] : p \in 1..Len(ephem[f].time_array)}
Spans ==
    {SpanOf(interp_ephem(p, interp_freq).time_interp) :
        p \in {q \in UNION {PassesOf(f) : f \in 1..Len(ephem)} : Len(q) >= 10}}

\* no pass is a handled overlap of window i
NoMatch(spans, i) ==
    \A sp \in spans : ~Handled(sp[1], sp[2], WinStart(i), WinEnd(i))

FilePerWindow(spans) ==
    /\ Cardinality({WinFile(i) : i \in Windows}) = Len(obs_time)
    /\ \A i \in Windows :
          /\ WinFile(i) \in DOMAIN files
          /\ NoMatch(spans, i) => files[WinFile(i)] = <<>>

AsField(n) == IF n < 10 THEN {<<Numeral[n + 1]>>, TwoDigits(n)} ELSE {TwoDigits(n)}

\* after its year s goes on with mid, which stands for month m, and a day
HasMonth(s, m, mid) ==
    /\ Len(s) > 4 + Len(mid)
    /\ SubSeq(s, 5, 4 + Len(mid)) = mid
    /\ \E d \in 1..DaysInMonth(YearOf(s), m) :
          SubSeq(s, 5 + Len(mid), Len(s)) \in AsField(d)

\* s is a calendar date that "%Y-%m-%d" takes
Accepted(s) ==
    /\ Len(s) >= 4
    /\ AllDigits(SubSeq(s, 1, 4))
    /\ YearOf(s) >= 1
    /\ \E m \in 1..12 : \E mm \in AsField(m) :
          HasMonth(s, m, <<"-">> \o mm \o <<"-">>)

\* the run has ended with the error of strptime and out_dir is as it was
Aborted == pc = "raised" /\ err = "ValueError" /\ files = OldFiles

(* C10, as the claim states it: with a start or stop date that is not a     *)
(* valid YYYY-MM-DD string the run fails with the parse error before any    *)
(* file is created or modified.                                             *)
C10_NotIso ==
    (pc # "start" /\ (~IsoDate(start_date) \/ ~IsoDate(stop_date))) => Aborted

(* C10, amended: with a start or stop date that strptime's "%Y-%m-%d" does  *)
(* not take (a month or day without its leading zero is taken) the run      *)
(* fails with the parse error before any file is created or modified.       *)
C10_NotAccepted ==
    (pc # "start" /\ (~Accepted(start_date) \/ ~Accepted(stop_date))) => Aborted

\* a run with a date that is not taken has ended
C10_Reached == Aborted /\ ~Accepted(start_date)


-----------------------------------------------------------------------------
(* The Channel Identifier: src/code/sat_channels/window_chan_map.py         *)
(*                                                                          *)
(* Powers are whole dB.  A trace is a sequence over time of rows, a row is  *)
(* a function from the channel (0-based as in the code) to the power.  The  *)
(* statistics of noise_floor are kept exact: the median in halves (mu2),    *)
(* the median absolute deviation in quarters (mad4), and every comparison   *)
(* the code makes with them is cross-multiplied.                            *)

(* Bounds *)

\* samples of a generated trace
TraceLen == 55
\* channels of a generated trace
NumChans == 4

(* Program constants *)

\* --sat_thresh, --noi_thresh: the defaults
sat_thresh == 1
noi_thresh == 3
\* --occ_thresh: the default 0.80, in hundredths
OccDefault == 80
OccUnit == 100
\* scipy.stats.median_absolute_deviation: scale = 1.4826
MadScale == 14826
MadUnit == 10000
\* channel_power[:10] and channel_power[-11:-1]
EdgeLen == 10

Chans(power) == DOMAIN power[1]

SetMin(S) == CHOOSE x \in S : \A y \in S : x <= y
SetMax(S) == CHOOSE x \in S : \A y \in S : y <= x

\* the sum of f over the set S of integers (S is not empty)
SumOver(f, S) ==
    LET acc[i \in (SetMin(S) - 1)..SetMax(S)] ==
            IF i < SetMin(S) THEN 0
            ELSE acc[i - 1] + IF i \in S THEN f[i] ELSE 0
    IN  acc[SetMax(S)]

\* the element of a set of one element: Only({F(x, y) : y \in {e}}) is
\* F(x, e) with e worked out once
Only(S) == CHOOSE x \in S : TRUE

\* np.std(data): N, the sum and the sum of squares of all the samples
RowSum(row) == SumOver(row, DOMAIN row)
RowSquares(row) == SumOver([c \in DOMAIN row |-> row[c] * row[c]], DOMAIN row)
DataSum(power) == SumOver([t \in DOMAIN power |-> RowSum(power[t])], DOMAIN power)
DataSquares(power) ==
    SumOver([t \in DOMAIN power |-> RowSquares(power[t])], DOMAIN power)
DataSize(power) == Len(power) * Cardinality(Chans(power))

\* chans_pow_max[c] < sat_thresh * np.std(data), squared and multiplied by N^2
BelowSatCut(m, n, s1, s2) ==
    \/ m < 0
    \/ m * m * n * n < sat_thresh * sat_thresh * (n * s2 - s1 * s1)

chans_pow_max(power, c) == SetMax({power[t][c] : t \in DOMAIN power})

noise_chans(power) ==
    Only({{c \in Chans(power) : BelowSatCut(chans_pow_max(power, c), n, s1, s2)} :
            n \in {DataSize(power)}, s1 \in {DataSum(power)},
            s2 \in {DataSquares(power)}})

\* the k-th smallest of the values val[x], x in the set S
Ranked(val, S, k) ==
    SetMin({v \in {val[x] : x \in S} :
              Cardinality({x \in S : val[x] <= v}) >= k})

\* twice np.median of the values val[x], x in S (S is not empty)
Median2(val, S) ==
    LET n == Cardinality(S)
    IN  IF n % 2 = 1
        THEN 2 * Ranked(val, S, (n + 1) \div 2)
        ELSE Ranked(val, S, n \div 2) + Ranked(val, S, n \div 2 + 1)

Abs(x) == IF x < 0 THEN 0 - x ELSE x

\* noise_data, as a function of the cell <<time, channel>>
noise_data(power, chans) ==
    [x \in (DOMAIN power) \X chans |-> power[x[1]][x[2]]]

\* four times the median of |x - median|, for twice the median mu2
Mad4(val, mu2) ==
    Only({Median2(dev, DOMAIN dev) :
            dev \in {[x \in DOMAIN val |-> Abs(2 * val[x] - mu2)]}})

NoiseStats(val) ==
    Only({[nan |-> FALSE, mu2 |-> mu2, mad4 |-> Mad4(val, mu2)] :
            mu2 \in {Median2(val, DOMAIN val)}})

\* noise_floor: the median of the noise channels that is subtracted from the
\* data, and noise_threshold = noi_thresh * 1.4826 * mad.  Without a noise
\* channel the median of nothing is nan, and so is everything derived from it.
noise_floor(power) ==
    Only({IF DOMAIN val = {}
          THEN [nan |-> TRUE, mu2 |-> 0, mad4 |-> 0]
          ELSE NoiseStats(val) :
            val \in {noise_data(power, noise_chans(power))}})

\* p >= noise_threshold for the sample p = x - mu2/2 of the shifted data
AboveNoise(x, nf) ==
    /\ ~nf.nan
    /\ 4 * MadUnit * x - 2 * MadUnit * nf.mu2 >= noi_thresh * MadScale * nf.mad4

\* p < noise_threshold
BelowNoise(x, nf) ==
    /\ ~nf.nan
    /\ 4 * MadUnit * x - 2 * MadUnit * nf.mu2 < noi_thresh * MadScale * nf.mad4

\* max(channel_power) >= pow_thresh
PeakAbove(x, nf, thresh) ==
    /\ ~nf.nan
    /\ 2 * x - nf.mu2 >= 2 * thresh

None == "None"

\* sat_channels.time_filter: the first and the last sample of the trace in the
\* visible interval of the satellite, None when there is none
time_filter(s_rise, s_set, times) ==
    LET inside == {i \in DOMAIN times : s_rise <= times[i] /\ times[i] <= s_set}
    IN  IF inside = {} THEN None ELSE <<SetMin(inside), SetMax(inside)>>

\* channel_power[-10:]
TailToEnd(w_start, w_stop) == SetMax({w_stop - EdgeLen + 1, w_start})..w_stop

\* channel_power[:10] and channel_power[-11:-1] of the rows w_start..w_stop
HeadEdge(w_start, w_stop) == w_start..SetMin({w_start + EdgeLen - 1, w_stop})
TailEdge(w_start, w_stop) == SetMax({w_stop - EdgeLen, w_start})..(w_stop - 1)

\* the number of samples of the channel at or above the noise threshold:
\* window_occupancy * window_len
Occupied(power, c, w_start, w_stop, nf) ==
    Cardinality({t \in w_start..w_stop : AboveNoise(power[t][c], nf)})

Quiet(power, c, T, nf) == \A t \in T : BelowNoise(power[t][c], nf)

\* the guards of a candidate on the first and the last samples of the pass
EdgesQuiet(power, times, c, w_start, w_stop, nf) ==
    IF times[1] = times[w_start]
    THEN Quiet(power, c, TailEdge(w_start, w_stop), nf)
    ELSE IF times[Len(times)] = times[w_stop]
         THEN Quiet(power, c, HeadEdge(w_start, w_stop), nf)
         ELSE /\ Quiet(power, c, HeadEdge(w_start, w_stop), nf)
              /\ Quiet(power, c, TailEdge(w_start, w_stop), nf)

\* the test of one channel in the loop of power_ephem, occ being
\* window_occupancy * window_len
IsPossible(power, times, c, w_start, w_stop, nf, occ) ==
    /\ PeakAbove(SetMax({power[t][c] : t \in w_start..w_stop}), nf, pow_thresh)
    /\ occ_thresh * (w_stop - w_start + 1) <= OccUnit * occ
    /\ occ < w_stop - w_start + 1
    /\ EdgesQuiet(power, times, c, w_start, w_stop, nf)

\* window_occupancy * window_len of every channel
occu(power, w_start, w_stop, nf) ==
    [c \in Chans(power) |-> Occupied(power, c, w_start, w_stop, nf)]

\* possible_chans, as a set: the list is in the order of the channels
possible_chans(power, times, w_start, w_stop, nf, occ) ==
    {c \in Chans(power) :
        IsPossible(power, times, c, w_start, w_stop, nf, occ[c])}

\* the last of the list with the largest occupancy
LastBest(P, occ) ==
    SetMax({c \in P : \A d \in P : occ[d] <= occ[c]})

\* possible_chans[occu_list.index(max(occu_list))]: the first of the list
\* with the largest occupancy
good_chan(P, occ) ==
    SetMin({c \in P : \A d \in P : occ[d] <= occ[c]})

\* norad_list.index(sat_id)
norad_index(list, sat_id) == SetMin({i \in DOMAIN list : list[i] = sat_id})

Crop(ref, pass) ==
    time_filter(pass.time_array[1], pass.time_array[Len(pass.time_array)],
                ref.times)

\* the candidates of the pass that is cropped to the interval
Candidates(ref, intvl) ==
    Only({Only({possible_chans(ref.power, ref.times, intvl[1], intvl[2], nf, occ) :
                  occ \in {occu(ref.power, intvl[1], intvl[2], nf)}}) :
            nf \in {noise_floor(ref.power)}})

\* window_occupancy * window_len of the channels of that pass
Occupancy(ref, intvl) ==
    Only({occu(ref.power, intvl[1], intvl[2], nf) :
            nf \in {noise_floor(ref.power)}})

Selected(ref, intvl) ==
    Only({IF P # {} THEN good_chan(P, Occupancy(ref, intvl)) ELSE 0 :
            P \in {Candidates(ref, intvl)}})

\* power_ephem: the channel of the satellite, 0 when it has none
power_ephem(ref, chrono, sat_id) ==
    LET pass == chrono[norad_index([i \in DOMAIN chrono |-> chrono[i].sat_id[1]],
                                   sat_id)]
    IN  IF SetMax({pass.sat_alt[i] : i \in DOMAIN pass.sat_alt}) >= alt_thresh
        THEN IF Crop(ref, pass) # None
             THEN Selected(ref, Crop(ref, pass))
             ELSE 0
        ELSE 0

(* The inputs *)

\* noise of -1, 0 and 1 dB
Noise(t, c) == ((t + c) % 3) - 1

\* a channel with an excursion of lvl dB over the samples lo..hi, but for the
\* samples glo..ghi
Shape(lo, hi, lvl, glo, ghi) ==
    [lo |-> lo, hi |-> hi, lvl |-> lvl, glo |-> glo, ghi |-> ghi]

Burst(lo, hi, lvl) == Shape(lo, hi, lvl, 1, 0)

Flat == Burst(1, 0, 0)

Excursion(sh, t) ==
    IF sh.lo <= t /\ t <= sh.hi /\ ~(sh.glo <= t /\ t <= sh.ghi)
    THEN sh.lvl ELSE 0

\* a trace of n samples at the times 1..n: the channels have the shapes
\* given, and the channels after them are noise
MakeTrace(n, shapes) ==
    [is_file |-> TRUE,
     power |-> [t \in 1..n |->
                   [c \in 0..(NumChans - 1) |->
                       Noise(t, c)
                         + IF c < Len(shapes)
                           THEN Excursion(shapes[c + 1], t) ELSE 0]],
     times |-> [t \in 1..n |-> t]]

\* the shapes of the channels 0, 1 and 2 of the generated traces
Shapes0 == {Flat, Burst(1, TraceLen - EdgeLen - 1, 20)}
Shapes1 ==
    {Flat,
     Burst(1, TraceLen - EdgeLen - 1, 20),
     Burst(1, TraceLen - EdgeLen, 20),
     Burst(1, TraceLen - EdgeLen - 1, 5),
     Burst(EdgeLen + 2, TraceLen - EdgeLen - 3, 20)}
Shapes2 ==
    {Flat,
     Burst(1, TraceLen - EdgeLen - 1, 20),
     Burst(EdgeLen + 1, TraceLen, 20),
     Burst(EdgeLen + 2, TraceLen - EdgeLen - 2, 20)}

Traces ==
    {MakeTrace(TraceLen, <<a, b, c>>) :
        a \in Shapes0, b \in Shapes1, c \in Shapes2}

\* the trace of the scenario: 100 samples, channel 1 is 20 dB up in 90 of
\* them, all but the ten samples from q on
Scenario(q) == MakeTrace(100, <<Flat, Shape(1, 100, 20, q, q + 9)>>)

Scenarios == {Scenario(q) : q \in {1, 46, 90, 91}}

\* an entry of the ephemeris file of the window
Entry(id, rise, set, alt) ==
    [sat_id |-> <<id>>, time_array |-> <<rise, set>>, sat_alt |-> <<alt - 1, alt>>,
     sat_az |-> <<0, 0>>]

\* the passes of a satellite over a trace of n samples at the times 1..n
PassesOver(id, n) ==
    {Entry(id, 0, n + 1, 40),       \* up before and after the trace
     Entry(id, 2, n + 1, 40),       \* rises in the trace
     Entry(id, 0, n - 1, 40),       \* sets in the trace
     Entry(id, 2, n - 1, 40),       \* rises and sets in the trace
     Entry(id, 0, 1, 40),           \* sets with the first sample
     Entry(id, n + 1, n + 9, 40),   \* not in the trace
     Entry(id, 0, n + 1, 0 - 5)}    \* below the horizon

SatA == "25417"
SatB == "41180"

\* a file that is not there
Missing == [is_file |-> FALSE]

ChronoFile(e) == [is_file |-> TRUE, chrono_ephem |-> e]

ChronoFiles(n) ==
    {Missing, ChronoFile(<<>>)}
      \cup {ChronoFile(<<a>>) : a \in PassesOver(SatA, n)}
      \cup {ChronoFile(<<a, b>>) :
               a \in {Entry(SatA, 0, n + 1, 40), Entry(SatA, 2, n + 1, 40),
                      Entry(SatA, 2, n - 1, 40)},
               b \in {Entry(SatB, 0, n + 1, 40), Entry(SatB, 2, n - 1, 40)}}

\* a window with two passes of one satellite: the first has set before the
\* first sample of the trace, the second is up from the first sample on
TwoFragments(n) ==
    ChronoFile(<<Entry(SatA, 0 - 9, 0, 40), Entry(SatA, 1, n + 1, 40)>>)

\* the runs of window_chan_map: the aligned file, the ephemeris file and
\* --occ_thresh (an int, or the default)
ChanRuns ==
    {[ref |-> r, chrono |-> f, occ |-> o] :
        r \in Traces \cup {Missing}, f \in ChronoFiles(TraceLen),
        o \in {0, OccDefault}}
      \cup {[ref |-> r, chrono |-> ChronoFile(<<Entry(SatA, 0, 101, 40)>>),
             occ |-> OccDefault] : r \in Scenarios}
      \cup {[ref |-> r, chrono |-> TwoFragments(TraceLen), occ |-> OccDefault] :
               r \in Traces}

IdleChrono ==
    /\ time_zone = Perth
    /\ start_date = <<>>
    /\ stop_date = <<>>
    /\ interp_freq = 1
    /\ ephem = <<>>
    /\ files = <<>>
    /\ obs_time = <<>>
    /\ obs_unix = <<>>
    /\ obs_unix_end = <<>>
    /\ file_idx = 0
    /\ pass_idx = 0
    /\ obs_int = 0
    /\ time_interp = <<>>
    /\ sat_alt = <<>>
    /\ sat_az = <<>>
    /\ printed = <<>>

InitChan ==
    /\ \E r \in ChanRuns :
          /\ ref_file = r.ref
          /\ chrono_file = r.chrono
          /\ occ_thresh = r.occ
    /\ pow_thresh = 10
    /\ alt_thresh = 0
    /\ norad_list = <<>>
    /\ sat_pos = 0
    /\ channel_map = <<>>
    /\ window_maps = "none"
    /\ pc = "window_chan_map"
    /\ err = "none"
    /\ IdleChrono
    /\ IdleCali
    /\ IdleProj
    /\ IdleBatch
    /\ IdleFit
    /\ IdleThresh

(* window_chan_map *)

chanIn == <<ref_file, chrono_file, pow_thresh, occ_thresh, alt_thresh>>
\* with open(chrono_file) ... norad_list = [...]
OpenChrono ==
    /\ pc = "window_chan_map"
    /\ IF ~chrono_file.is_file
       THEN /\ err' = "FileNotFoundError"
            /\ pc' = "save"
            /\ UNCHANGED <<norad_list, sat_pos>>
       ELSE /\ norad_list' = [i \in DOMAIN chrono_file.chrono_ephem |->
                                 chrono_file.chrono_ephem[i].sat_id[1]]
            /\ sat_pos' = 1
            /\ pc' = "sats"
            /\ err' = err
    /\ UNCHANGED <<chanIn, channel_map, window_maps, notChan>>

Put(map, key, val) ==
    [k \in DOMAIN map \cup {key} |-> IF k = key THEN val ELSE map[k]]

\* one turn of "for sat in norad_list"
MapSat ==
    /\ pc = "sats"
    /\ sat_pos <= Len(norad_list)
    /\ IF ~ref_file.is_file
       THEN /\ err' = "FileNotFoundError"
            /\ pc' = "save"
            /\ UNCHANGED <<sat_pos, channel_map>>
       ELSE /\ \E sat_data \in {power_ephem(ref_file, chrono_file.chrono_ephem,
                                             norad_list[sat_pos])} :
                   channel_map' = IF sat_data # 0
                                  THEN Put(channel_map, norad_list[sat_pos],
                                           sat_data)
                                  ELSE channel_map
            /\ sat_pos' = sat_pos + 1
            /\ UNCHANGED <<pc, err>>
    /\ UNCHANGED <<chanIn, norad_list, window_maps, notChan>>

\* json.dump(channel_map, outfile): after the loop, and after an exception
\* that "except Exception" has printed
SaveMap ==
    /\ \/ pc = "save"
       \/ pc = "sats" /\ sat_pos > Len(norad_list)
    /\ window_maps' = channel_map
    /\ pc' = "done"
    /\ UNCHANGED <<chanIn, err, norad_list, sat_pos, channel_map, notChan>>

NextChan ==
    \/ OpenChrono
    \/ MapSat
    \/ SaveMap

SpecChan == InitChan /\ [][NextChan]_allVars

-----------------------------------------------------------------------------
(* Claims on the Channel Identifier *)

\* the entry that power_ephem works on for the satellite of the loop: the
\* first of the ephemeris with its id
PassNow ==
    chrono_file.chrono_ephem[norad_index(norad_list, norad_list[sat_pos])]

\* window_chan_map is about to call power_ephem for a satellite that is up
\* during the trace
InPass ==
    /\ pc = "sats"
    /\ sat_pos <= Len(norad_list)
    /\ ref_file.is_file
    /\ \E i \in DOMAIN PassNow.sat_alt : PassNow.sat_alt[i] >= alt_thresh
    /\ Crop(ref_file, PassNow) # None

\* the number of samples of channel c of the pass w = <<first, last>> that
\* are at or above the noise threshold
Exceeding(c, nf, w) ==
    Cardinality({t \in w[1]..w[2] : AboveNoise(ref_file.power[t][c], nf)})

\* peak power >= pow_thresh
PeakOk(c, nf, w) ==
    \E t \in w[1]..w[2] : PeakAbove(ref_file.power[t][c], nf, pow_thresh)

\* occupancy in [occ_thresh, 1.0)
OccOk(c, nf, w) ==
    \E n \in {Exceeding(c, nf, w)} :
        /\ occ_thresh * (w[2] - w[1] + 1) <= OccUnit * n
        /\ n < w[2] - w[1] + 1

\* the samples of the trace next to the pass: the one before the rise and the
\* one after the set, whichever of the two exist
Adjacent(w) == {w[1] - 1, w[2] + 1} \cap DOMAIN ref_file.power

\* the samples of the pass that the code looks at: the first ten unless the
\* pass starts with the trace, the ten before the last one if the pass starts
\* with the trace or ends before the trace does
StartsWithTrace(w) == w[1] = 1
EndsWithTrace(w) == w[2] = Len(ref_file.power)

Looked(w) ==
    {t \in w[1]..w[2] :
        \/ ~StartsWithTrace(w) /\ t < w[1] + EdgeLen
        \/ /\ StartsWithTrace(w) \/ ~EndsWithTrace(w)
           /\ w[2] - EdgeLen <= t
           /\ t < w[2]}

QuietOver(c, nf, T) == \A t \in T : BelowNoise(ref_file.power[t][c], nf)

\* the channels that pass the three tests, the third on the samples T
Passing(nf, w, T) ==
    {c \in Chans(ref_file.power) :
        PeakOk(c, nf, w) /\ OccOk(c, nf, w) /\ QuietOver(c, nf, T)}

MapWritten ==
    /\ pc = "done"
    /\ ref_file.is_file
    /\ chrono_file.is_file

\* the satellite of entry i is up during the trace
UpInTrace(i) ==
    /\ \E k \in DOMAIN chrono_file.chrono_ephem[i].sat_alt :
          chrono_file.chrono_ephem[i].sat_alt[k] >= alt_thresh
    /\ Crop(ref_file, chrono_file.chrono_ephem[i]) # None

\* the candidate channels of the satellite of entry i
CandidatesOf(i) ==
    IF UpInTrace(i)
    THEN Candidates(ref_file, Crop(ref_file, chrono_file.chrono_ephem[i]))
    ELSE {}

\* the channel that is selected among the candidates P of entry i
SelectedOf(i, P) ==
    good_chan(P, Occupancy(ref_file, Crop(ref_file, chrono_file.chrono_ephem[i])))

\* C12: a satellite is in the channel map of the window, with its selected
\* channel, iff it has a candidate channel in the window, whichever of the
\* channels 0..n_channels-1 is selected.
C12_Mapped ==
    MapWritten =>
        \A i \in DOMAIN chrono_file.chrono_ephem :
            \A P \in {CandidatesOf(i)}, sat \in {chrono_file.chrono_ephem[i].sat_id[1]} :
                IF P = {}
                THEN sat \notin DOMAIN window_maps
                ELSE /\ sat \in DOMAIN window_maps
                     /\ window_maps[sat] = SelectedOf(i, P)

\* what power_ephem returns for the satellite of the loop
Returned == power_ephem(ref_file, chrono_file.chrono_ephem, norad_list[sat_pos])

\* r is a candidate of the largest occupancy, and the lowest of those
BestOf(r, P, nf, w) ==
    /\ r \in P
    /\ \A d \in P : Exceeding(d, nf, w) <= Exceeding(r, nf, w)
    /\ \A d \in P : Exceeding(d, nf, w) = Exceeding(r, nf, w) => r <= d

\* C13: for a pass with candidates, power_ephem returns a candidate whose
\* occupancy is at least that of every other candidate, and the one of the
\* lowest channel index among the candidates of that largest occupancy.
C13_Highest ==
    InPass =>
        \A nf \in {noise_floor(ref_file.power)}, w \in {Crop(ref_file, PassNow)} :
            \A P \in {Candidates(ref_file, w)} :
                P # {} => BestOf(Returned, P, nf, w)

\* a pass with two candidates of the largest occupancy and a candidate of a
\* smaller one
C13_Reached ==
    /\ InPass
    /\ \E nf \in {noise_floor(ref_file.power)}, w \in {Crop(ref_file, PassNow)} :
          \E P \in {Candidates(ref_file, w)} :
              \E c, d, e \in P :
                  /\ c # d
                  /\ Exceeding(c, nf, w) = Exceeding(d, nf, w)
                  /\ Exceeding(e, nf, w) < Exceeding(c, nf, w)
                  /\ BestOf(Returned, P, nf, w)

\* the number of samples of channel c of the whole trace that are at or
\* above the noise threshold
ExceedingAll(c) ==
    Only({Exceeding(c, nf, <<1, Len(ref_file.power)>>) :
            nf \in {noise_floor(ref_file.power)}})

\* the scenario: a trace of 100 samples, channel c exceeds the noise
\* threshold in 90 of them, by 20 dB, and no other channel ever does;
\* pow_thresh is 10, occ_thresh 0.8, and the one satellite is up from before
\* the trace until after it
InScenario(c) ==
    /\ ref_file.is_file
    /\ Len(ref_file.power) = 100
    /\ pow_thresh = 10
    /\ occ_thresh = 80
    /\ ExceedingAll(c) = 90
    /\ \A d \in Chans(ref_file.power) \ {c} : ExceedingAll(d) = 0
    /\ chrono_file.is_file
    /\ Len(chrono_file.chrono_ephem) = 1
    /\ UpInTrace(1)
    /\ Crop(ref_file, chrono_file.chrono_ephem[1]) = <<1, 100>>

\* C14: in the scenario the Channel Identifier selects the channel with the
\* excursion, and no other channel.
C14_Scenario ==
    \A c \in 0..(NumChans - 1) :
        (pc = "done" /\ InScenario(c)) =>
            window_maps = Put(<<>>, chrono_file.chrono_ephem[1].sat_id[1], c)

-----------------------------------------------------------------------------
(* The Gain Calibrator: rfe_calibration of src/embers/tile_maps/tile_maps.py *)
(*                                                                          *)
(* A pass is taken up where the code has averaged the samples of each       *)
(* healpix pixel and has scaled the slice of the beam to the power of the   *)
(* tile (line 620): it is the pixels u, and for each of them mwa_pass, *)
(* mwa_fee_pass and times_pass.  Powers are whole dBm, times whole seconds. *)
(* The p-value that scipy's chisquare gives for the pass is an input, in    *)
(* thousandths.                                                             *)

(* Bounds *)

\* pixels of a generated pass
PassPixels == 31

(* Program constants *)

\* dis_filter: mwa_pass <= -35; null_filter: mwa_fee_pass_fil >= -55
DisMax == 0 - 35
NullMin == 0 - 55
\* more than 30 non distorted samples
MinSize == 30
\* pval >= 0.8, in thousandths
MinPval == 800
hp_10_deg == 111
\* only passes longer than 10 minutes
MinSpan == 600

\* size > 30 in place of size >= 30
MoreThanMinSize(n) == n > MinSize

\* mwa_fee_pass[dis_filter][null_filter].size >= 30
EnoughSize(n) == n >= MinSize

\* the pixels of dis_filter followed by null_filter
Filtered(p) ==
    {i \in DOMAIN p.u : p.mwa_pass[i] <= DisMax /\ p.mwa_fee_pass[i] >= NullMin}

\* chisq_fit_gain: the gain that makes sum((data - (model + gain))^2) least
\* is the mean of data - model over the pixels I.  The passes of the model
\* have a whole mean; with nothing to fit the gain stays at x0 = 0
chisq_fit_gain(data, model, I) ==
    IF I = {} THEN 0
    ELSE SumOver([i \in DOMAIN data |-> data[i] - model[i]], I) \div Cardinality(I)

\* mwa_fee_pass = mwa_fee_pass + offset
FittedFee(p) ==
    Only({[i \in DOMAIN p.u |-> p.mwa_fee_pass[i] + offset] :
            offset \in {chisq_fit_gain(p.mwa_pass, p.mwa_fee_pass, Filtered(p))}})

\* resi = mwa_fee_pass - mwa_pass_fit
Resi(p) ==
    Only({[i \in DOMAIN p.u |-> fee[i] - p.mwa_pass[i]] : fee \in {FittedFee(p)}})

SeqMin(q) == SetMin({q[i] : i \in DOMAIN q})
SeqMax(q) == SetMax({q[i] : i \in DOMAIN q})

\* the four tests of lines 642 to 672
Retained(p) ==
    /\ EnoughSize(Cardinality(Filtered(p)))
    /\ p.pval >= MinPval
    /\ SeqMin(p.u) <= hp_10_deg
    /\ SeqMax(p.times_pass) - SeqMin(p.times_pass) >= MinSpan

\* resi_gain after the pass
Extended(rg, p) ==
    IF Retained(p)
    THEN [pass_data |-> rg.pass_data \o p.mwa_pass,
          pass_resi |-> rg.pass_resi \o Resi(p)]
    ELSE rg

(* The inputs *)

\* rf_apply_thresholds returned 0
NoData == [data |-> FALSE]

\* a pass of PassPixels pixels from the pixel first on: the first dist pixels
\* are distorted (above -35 dBm), the last nulls pixels are in a null of the
\* model (below -55 dBm), the others are 2 dB above the model; the times of
\* the pixels go from 0 to span
Pass(first, dist, nulls, span, pval) ==
    [data |-> TRUE,
     u |-> [i \in 1..PassPixels |-> first + i - 1],
     mwa_pass |-> [i \in 1..PassPixels |->
                      IF i <= dist THEN 0 - 30 ELSE 0 - 40 - (i % 3)],
     mwa_fee_pass |-> [i \in 1..PassPixels |->
                          IF i > PassPixels - nulls THEN 0 - 60
                          ELSE 0 - 42 - (i % 3)],
     times_pass |-> [i \in 1..PassPixels |->
                        IF i = PassPixels THEN span ELSE 10 * (i - 1)],
     pval |-> pval]

Passes ==
    {Pass(first, dn[1], dn[2], span, pval) :
        first \in {hp_10_deg, hp_10_deg + 1},
        dn \in {<<0, 0>>, <<1, 0>>, <<0, 1>>, <<1, 1>>},
        span \in {MinSpan - 1, MinSpan},
        pval \in {MinPval - 1, MinPval}}

SatC == "44387"

\* point = None
NoPoint == 0 - 1

\* check_pointing: listed is the set of the pointings in whose list of
\* obs_point_json the timestamp of the window is
check_pointing(listed) ==
    IF 0 \in listed THEN 0
    ELSE IF 2 \in listed THEN 2
    ELSE IF 4 \in listed THEN 4
    ELSE IF 41 \in listed THEN 41
    ELSE NoPoint

\* a test of the pointing that only asks for a pointing
AnyPoint(point) == point # NoPoint

\* if point == 0, l.473
AtZenithPoint(point) == point = 0

\* a window: its pointing (check_pointing), whether the aligned file is
\* there, the ephemeris file with its norad_list, the channel map with its
\* keys, and what rf_apply_thresholds returns for the satellites
Window(point, ali, chrono, map, data) ==
    [point |-> point, ali_file |-> ali, chrono_file |-> chrono,
     channel_map |-> map, sat_data |-> data]

NoradFile(list) == [is_file |-> TRUE, norad_list |-> list]
MapFile(keys) == [is_file |-> TRUE, chan_sat_ids |-> keys]

DataOf(p) == [sat \in {SatA, SatB, SatC} |-> IF sat = SatA THEN p ELSE NoData]

\* a window with one pass of the satellite SatA
PassWindow(p) ==
    Window(0, TRUE, NoradFile(<<SatA, SatB>>), MapFile(<<SatA>>), DataOf(p))

\* a window of one pass whose residuals would be kept, at the pointing of
\* a timestamp that the lists of listed hold
PointWindow(listed) ==
    Window(check_pointing(listed), TRUE, NoradFile(<<SatA, SatB>>), MapFile(<<SatA>>),
           DataOf(Pass(hp_10_deg, 0, 0, MinSpan, MinPval)))

OddWindows ==
    {\* another pointing, and no pointing
     PointWindow({2}), PointWindow({4, 41}), PointWindow({41}), PointWindow({}),
     \* no aligned file
     Window(0, FALSE, NoradFile(<<SatA>>), MapFile(<<SatA>>), DataOf(NoData)),
     \* no ephemeris file
     Window(0, TRUE, Missing, MapFile(<<SatA>>), DataOf(NoData)),
     \* no satellite in the window
     Window(0, TRUE, NoradFile(<<>>), MapFile(<<>>), DataOf(NoData)),
     \* no channel map
     Window(0, TRUE, NoradFile(<<SatA>>), Missing, DataOf(NoData)),
     \* a satellite of the channel map that the ephemeris file does not have
     Window(0, TRUE, NoradFile(<<SatA>>), MapFile(<<SatC, SatA>>), DataOf(NoData)),
     \* nothing above the thresholds
     Window(0, TRUE, NoradFile(<<SatA, SatB>>), MapFile(<<SatA, SatB>>),
            DataOf(NoData))}

LaterWindows ==
    OddWindows
      \cup {PointWindow({0, 2}),
            PassWindow(Pass(hp_10_deg, 1, 0, MinSpan, MinPval)),
            PassWindow(Pass(hp_10_deg, 1, 1, MinSpan, MinPval))}

CaliRuns ==
    {<<a, b>> : a \in OddWindows \cup {PassWindow(p) : p \in Passes},
                b \in LaterWindows}

InitCali ==
    /\ windows \in CaliRuns
    /\ win_pos = 1
    /\ chan_sat_ids = <<>>
    /\ cali_pos = 1
    /\ resi_gain = [pass_data |-> <<>>, pass_resi |-> <<>>]
    /\ gain_fit = Missing
    /\ pc = "rfe_calibration"
    /\ err = "none"
    /\ IdleChrono
    /\ IdleChan
    /\ IdleProj
    /\ IdleBatch
    /\ IdleFit
    /\ IdleThresh

(* rfe_calibration *)

InSatLoop == cali_pos <= Len(chan_sat_ids)

\* one turn of the loops over the days and the windows, up to the loop over
\* the satellites of the channel map
CaliWindow ==
    /\ pc = "rfe_calibration"
    /\ ~InSatLoop
    /\ win_pos <= Len(windows)
    /\ IF AtZenithPoint(windows[win_pos].point) /\ windows[win_pos].ali_file
       THEN IF ~windows[win_pos].chrono_file.is_file
            THEN /\ err' = "FileNotFoundError"
                 /\ pc' = "raised"
                 /\ UNCHANGED <<win_pos, chan_sat_ids, cali_pos>>
            ELSE IF /\ windows[win_pos].chrono_file.norad_list # <<>>
                    /\ windows[win_pos].channel_map.is_file
                    /\ windows[win_pos].channel_map.chan_sat_ids # <<>>
                 THEN /\ chan_sat_ids' = windows[win_pos].channel_map.chan_sat_ids
                      /\ cali_pos' = 1
                      /\ UNCHANGED <<win_pos, pc, err>>
                 ELSE /\ win_pos' = win_pos + 1
                      /\ UNCHANGED <<chan_sat_ids, cali_pos, pc, err>>
       ELSE /\ win_pos' = win_pos + 1
            /\ UNCHANGED <<chan_sat_ids, cali_pos, pc, err>>
    /\ UNCHANGED <<windows, resi_gain, gain_fit, notCali>>

InList(x, list) == \E i \in DOMAIN list : list[i] = x

\* one turn of "for sat in chan_sat_ids"
CaliSat ==
    /\ pc = "rfe_calibration"
    /\ InSatLoop
    /\ IF ~InList(chan_sat_ids[cali_pos], windows[win_pos].chrono_file.norad_list)
       THEN \* norad_list.index(str(sat_id)) in rf_apply_thresholds
            /\ err' = "ValueError"
            /\ pc' = "raised"
            /\ UNCHANGED <<win_pos, chan_sat_ids, cali_pos, resi_gain>>
       ELSE /\ \E sat_data \in {windows[win_pos].sat_data[chan_sat_ids[cali_pos]]} :
                  resi_gain' = IF sat_data.data
                               THEN Extended(resi_gain, sat_data)
                               ELSE resi_gain
            /\ IF cali_pos = Len(chan_sat_ids)
               THEN /\ win_pos' = win_pos + 1
                    /\ chan_sat_ids' = <<>>
                    /\ cali_pos' = 1
               ELSE /\ cali_pos' = cali_pos + 1
                    /\ UNCHANGED <<win_pos, chan_sat_ids>>
            /\ UNCHANGED <<pc, err>>
    /\ UNCHANGED <<windows, gain_fit, notCali>>

\* json.dump(resi_gain, outfile) after the loops
WriteGainFit ==
    /\ pc = "rfe_calibration"
    /\ ~InSatLoop
    /\ win_pos > Len(windows)
    /\ gain_fit' = [is_file |-> TRUE, resi_gain |-> resi_gain]
    /\ pc' = "done"
    /\ UNCHANGED <<windows, win_pos, chan_sat_ids, cali_pos, resi_gain, err, notCali>>

NextCali ==
    \/ CaliWindow
    \/ CaliSat
    \/ WriteGainFit

SpecCali == InitCali /\ [][NextCali]_allVars

-----------------------------------------------------------------------------
(* Claims on the Gain Calibrator *)

\* rfe_calibration is about to work on a pass that rf_apply_thresholds
\* returns
AtCaliPass ==
    /\ pc = "rfe_calibration"
    /\ InSatLoop
    /\ InList(chan_sat_ids[cali_pos], windows[win_pos].chrono_file.norad_list)
    /\ windows[win_pos].sat_data[chan_sat_ids[cali_pos]].data

CaliPass == windows[win_pos].sat_data[chan_sat_ids[cali_pos]]

\* the qualifying points: neither distorted nor in a null of the model
Qualifying(p) ==
    Cardinality({i \in DOMAIN p.u :
                   ~(p.mwa_pass[i] > DisMax) /\ ~(p.mwa_fee_pass[i] < NullMin)})

\* the pass has a pixel within 10 degrees of zenith, which the code takes to
\* be a healpix index of at most 111
NearZenith(p) == \E i \in DOMAIN p.u : p.u[i] <= 111

\* the times of the pixels of the pass span at least 600 seconds
LongPass(p) ==
    \E i, j \in DOMAIN p.times_pass : p.times_pass[j] - p.times_pass[i] >= 600

AllFour(p) ==
    /\ Qualifying(p) >= 30
    /\ p.pval >= 800
    /\ NearZenith(p)
    /\ LongPass(p)

\* the model of the beam, fitted to the qualifying points of the pass, minus
\* the measured value of each pixel
ModelMinusMeasured(p) ==
    [i \in DOMAIN p.u |-> FittedFee(p)[i] - p.mwa_pass[i]]

CaliEnded == pc \in {"done", "raised"}

\* C16: whatever file or entry is missing for a window, the later windows of
\* the pair are still worked on and the residual file is written at the end.
C16_Skipped ==
    CaliEnded => /\ win_pos > Len(windows)
                 /\ gain_fit.is_file


(***************************************************************************)
(* The Beam Projector: project_tile_healpix of tile_maps.py, for one tile   *)
(* pair.  The model follows the function block by block: the body of the    *)
(* satellite loop from the pixel averages on (l.986-1108) and the sorting   *)
(* by satellite with the save (l.1114-1166).  What the calls before give    *)
(* is an input of each pass: check_pointing (l.910, called with five        *)
(* arguments where the definition of l.34 takes two), rf_apply_thresholds   *)
(* (l.951, called with seven arguments where the definition of l.313 takes  *)
(* ten), and the p-value of fit_test (l.1058; fit_gain and fit_test are     *)
(* defined in code/tile_maps/rfe_gain.py and not in tile_maps.py).  Powers  *)
(* are whole dB, times whole seconds, p-values thousandths.                 *)
(***************************************************************************)

\* pixels of a map: hp.nside2npix(nside), pixels 0..NPix-1
NPix == 3

\* passes that one run comes to
MaxPasses == 3

\* the hard-coded goodness of fit of l.1089, 0.8, in thousandths
FitGate == 800

\* default of --fit_thresh, 0.9, in thousandths
FitDefault == 900

pointings == {"0", "2", "4", "41"}

Pixels == 0..(NPix - 1)

\* np.poly1d(rfe_polyfit)(v): coefficients with the highest power first
RECURSIVE gain_cal(_, _)
gain_cal(c, v) ==
    IF Len(c) = 0 THEN 0
    ELSE gain_cal(SubSeq(c, 1, Len(c) - 1), v) * v + c[Len(c)]

\* the powers among which the roots of the polynomials lie
PowerRange == (0 - 60)..0

\* gain_cal.roots, for polynomials whose roots are whole powers
roots(c) == {v \in PowerRange : gain_cal(c, v) = 0}

\* the commented-out line 1030, for a polynomial with two real roots
FirstRoot(c) == SetMin(roots(c))

rfe_thresh(c) == SetMax(roots(c))

\* tile_pass_rfe, l.1032-1037
tile_pass_rfe(c, tile_pass) ==
    [i \in DOMAIN tile_pass |->
        IF tile_pass[i] >= rfe_thresh(c)
        THEN tile_pass[i] + gain_cal(c, tile_pass[i])
        ELSE tile_pass[i]]

\* mwa_pass, l.1042-1046
mwa_pass(c, pass) ==
    [i \in DOMAIN pass.tile_pass |->
        tile_pass_rfe(c, pass.tile_pass)[i] - pass.ref_pass[i] + pass.ref_fee_pass[i]]

\* an exact fraction
Frac(num, den) == [num |-> num, den |-> den]

\* fit_gain: the gain that minimises sum((map_data - (fee + gain))^2), the
\* mean of map_data - fee, as a fraction over the number of pixels
fit_gain(map_data, fee) ==
    Frac(SumOver([i \in DOMAIN map_data |-> map_data[i] - fee[i]], DOMAIN map_data),
         Len(map_data))

\* mwa_pass_fit = mwa_pass - offset[0], l.1053
Shifted(m, off) == [i \in DOMAIN m |-> Frac(off.den * m[i] - off.num, off.den)]

mwa_pass_fit(c, pass) ==
    Only({Only({Shifted(m, off) : off \in {fit_gain(m, pass.mwa_fee_pass)}}) :
            m \in {mwa_pass(c, pass)}})

\* a p-value that is not a number: every comparison with it is false
NaN == 0 - 1

\* the p-value 1.0, in thousandths
PvalOne == 1000

\* fit_test of rfe_gain.py: the p-value of scipy's chisquare of the shifted
\* data against the shifted model.  The statistic sum((data - model)^2 /
\* model) is 0 when the data equal the model, and its p-value is then 1.0;
\* with a single pixel the distribution has no degree of freedom and the
\* p-value is nan.  For any other data the p-value is the input pv.
fit_test(map_data, fee, pv) ==
    IF Len(map_data) = 1 THEN NaN
    ELSE IF \A i \in DOMAIN map_data : map_data[i].num = map_data[i].den * fee[i]
         THEN PvalOne
         ELSE pv

\* pval of l.1058
PassPval(c, pass) == fit_test(mwa_pass_fit(c, pass), pass.mwa_fee_pass, pass.pval)

\* if pval >= 0.8, l.1089
Gate(p) == p # NaN /\ p >= FitGate

\* l.1055 and the goodness of fit threshold of l.1089
PassAccepted(c, pass) ==
    /\ Len(pass.u) # 0
    /\ Gate(PassPval(c, pass))

\* tile_data[name][point][pixel].append(value[i]) for every i, l.1092-1108:
\* u is np.unique(healpix_index), so no pixel comes twice
Appended(map, point, u, value) ==
    [p \in pointings |->
        [x \in Pixels |->
            IF p = point /\ \E i \in DOMAIN u : u[i] = x
            THEN Append(map[p][x], value[CHOOSE i \in DOMAIN u : u[i] = x])
            ELSE map[p][x]]]

\* the loop without the append of l.1106-1108
AppendButSat(data, c, pass) ==
    [mwa_maps  |-> Appended(data.mwa_maps, pass.point, pass.u, mwa_pass_fit(c, pass)),
     ref_maps  |-> Appended(data.ref_maps, pass.point, pass.u, pass.ref_pass),
     tile_maps |-> Appended(data.tile_maps, pass.point, pass.u, pass.tile_pass),
     times     |-> Appended(data.times, pass.point, pass.u, pass.times_pass),
     sat_map   |-> data.sat_map]

\* the loop of l.1092-1108 over the pixels of the pass
AppendPass(data, c, pass) ==
    [mwa_maps  |-> Appended(data.mwa_maps, pass.point, pass.u, mwa_pass_fit(c, pass)),
     ref_maps  |-> Appended(data.ref_maps, pass.point, pass.u, pass.ref_pass),
     tile_maps |-> Appended(data.tile_maps, pass.point, pass.u, pass.tile_pass),
     times     |-> Appended(data.times, pass.point, pass.u, pass.times_pass),
     sat_map   |-> Appended(data.sat_map, pass.point, pass.u,
                            [i \in DOMAIN pass.u |-> pass.sat])]

\* tile_data of l.862-876: an empty list for every pixel of every pointing
EmptyMap == [p \in pointings |-> [x \in Pixels |-> <<>>]]

EmptyData ==
    [mwa_maps |-> EmptyMap, ref_maps |-> EmptyMap, tile_maps |-> EmptyMap,
     times |-> EmptyMap, sat_map |-> EmptyMap]

\* only the first place where sat_list holds s
FirstIdx(list, sat_list, s) ==
    IF \E k \in DOMAIN list : sat_list[k] = s
    THEN <<list[CHOOSE k \in DOMAIN list :
                    /\ sat_list[k] = s
                    /\ \A j \in DOMAIN list : sat_list[j] = s => k <= j]>>
    ELSE <<>>

\* np.asarray(list)[np.where(np.asarray(sat_list) == s)]: the entries of
\* list at the places where sat_list holds s, in their order
RECURSIVE SatIdx(_, _, _)
SatIdx(list, sat_list, s) ==
    IF Len(list) = 0 THEN <<>>
    ELSE IF sat_list[1] = s
         THEN <<list[1]>> \o SatIdx(Tail(list), Tail(sat_list), s)
         ELSE SatIdx(Tail(list), Tail(sat_list), s)

\* embers.sat_utils.sat_list.norad_ids, the catalogue of the satellites
\* whose ephemerides the pipeline downloads: list(norad_ids.values())
sat_ids == {SatA, SatB, SatC}

\* mwa_sat_data and the like, l.1128-1157: pointing, satellite, pixel
SatData(map, sat_map) ==
    [p \in pointings |->
        [s \in sat_ids |->
            [i \in Pixels |-> SatIdx(map[p][i], sat_map[p][i], s)]]]

\* the dictionary saved at l.1160-1166
SortBySat(data) ==
    [mwa_map  |-> SatData(data.mwa_maps, data.sat_map),
     ref_map  |-> SatData(data.ref_maps, data.sat_map),
     tile_map |-> SatData(data.tile_maps, data.sat_map),
     time_map |-> SatData(data.times, data.sat_map)]

\* one pass as the satellite loop has it at l.1026: pointing of the window,
\* satellite, the unique pixels and the per-pixel averages
SatPass(point, sat, u, tile, ref, times, pval) ==
    [point |-> point, sat |-> sat, u |-> u,
     tile_pass |-> tile, ref_pass |-> ref, times_pass |-> times,
     ref_fee_pass |-> [i \in DOMAIN u |-> 0 - u[i]],
     mwa_fee_pass |-> [i \in DOMAIN u |-> 0 - 2 * u[i]],
     pval |-> pval]

\* the kinds of passes: tile powers below, between, at and above the roots
\* of the gain polynomial; p-values below, at and above 0.8 and 0.9; a pass
\* of one pixel and a pass of two pixels whose mwa_pass is mwa_fee_pass
PassKinds ==
    {SatPass("0", SatA, <<0, 1>>, <<0 - 40, 0 - 25>>, <<0 - 35, 0 - 30>>, <<10, 20>>, 800),
     SatPass("0", SatB, <<2>>, <<0 - 42>>, <<0 - 40>>, <<17>>, 999),
     SatPass("0", SatB, <<0, 1, 2>>, <<0 - 52, 0 - 45, 0 - 20>>, <<0 - 41, 0 - 39, 0 - 37>>, <<30, 40, 50>>, 850),
     SatPass("41", SatA, <<1, 2>>, <<0 - 38, 0 - 27>>, <<0 - 30, 0 - 29>>, <<80, 90>>, 799),
     SatPass("0", SatA, <<1, 2>>, <<0 - 41, 0 - 42>>, <<0 - 40, 0 - 40>>, <<15, 16>>, 0)}

\* the gain polynomials: (v + 30)(v + 50) and 2(v + 35)
Polyfits == {<<1, 80, 1500>>, <<2, 70>>}

\* --fit_thresh: not given (the default) or given
FitThreshs ==
    {[given |-> FALSE, value |-> FitDefault],
     [given |-> TRUE, value |-> 900]}

PassLists == UNION {[1..n -> PassKinds] : n \in 1..MaxPasses}

InitProj ==
    /\ pc = "project_tile_healpix"
    /\ err = "none"
    /\ passes \in PassLists
    /\ pass_pos = 1
    /\ fit_thresh \in FitThreshs
    /\ rfe_polyfit \in Polyfits
    /\ tile_data = EmptyData
    /\ sat_maps = <<>>
    /\ IdleChrono
    /\ IdleChan
    /\ IdleCali
    /\ IdleBatch
    /\ IdleFit
    /\ IdleThresh

\* the body of the satellite loop for one pass, l.1026-1108
ProjectPass ==
    /\ pc = "project_tile_healpix"
    /\ pass_pos <= Len(passes)
    /\ tile_data' = IF PassAccepted(rfe_polyfit, passes[pass_pos])
                    THEN AppendPass(tile_data, rfe_polyfit, passes[pass_pos])
                    ELSE tile_data
    /\ pass_pos' = pass_pos + 1
    /\ UNCHANGED <<pc, err, passes, fit_thresh, rfe_polyfit, sat_maps>>
    /\ UNCHANGED notProj

\* after the loops: sort the data by satellite and save it, l.1114-1166
SaveSatMaps ==
    /\ pc = "project_tile_healpix"
    /\ pass_pos > Len(passes)
    /\ sat_maps' = SortBySat(tile_data)
    /\ pc' = "done"
    /\ UNCHANGED <<err, passes, pass_pos, fit_thresh, rfe_polyfit, tile_data>>
    /\ UNCHANGED notProj

NextProj == ProjectPass \/ SaveSatMaps

SpecProj == InitProj /\ [][NextProj]_allVars


(***************************************************************************)
(* Claims on the Beam Projector.                                            *)
(***************************************************************************)

\* the passes that the satellite loop has been through
ProjectedPasses == IF pc \in {"project_tile_healpix", "done"} /\ passes # <<>>
                   THEN 1..(pass_pos - 1) ELSE {}

\* the largest root of the gain polynomial
LargestRoot ==
    CHOOSE r \in PowerRange :
        /\ gain_cal(rfe_polyfit, r) = 0
        /\ \A q \in PowerRange : gain_cal(rfe_polyfit, q) = 0 => q <= r

\* the gain-corrected value of the per-pixel tile power v, as the claim has it
GainCorrected(v) ==
    IF v < LargestRoot THEN v ELSE v + gain_cal(rfe_polyfit, v)

AtOtherPoint ==
    /\ pc = "rfe_calibration"
    /\ win_pos <= Len(windows)
    /\ windows[win_pos].point \in {2, 4, 41, NoPoint}

\* C25: in the Gain Calibrator only a window at pointing 0 can add to the
\* residuals: a window at pointing 2, 4 or 41, or a window that is in the
\* list of no pointing, is passed over and leaves pass_data and pass_resi
\* as they are.
C25_ZenithOnly ==
    [][AtOtherPoint =>
        /\ resi_gain' = resi_gain
        /\ win_pos' = win_pos + 1
        /\ pc' = pc]_allVars

\* the run has ended after a window at pointing 0 whose pass added to the
\* residuals and a window at another pointing with a pass of the same kind
C25_Reached ==
    /\ pc = "done"
    /\ windows[1] = PointWindow({0, 2})
    /\ windows[2].point \in {2, 4, 41, NoPoint}
    /\ windows[2].sat_data[SatA].data
    /\ Retained(windows[2].sat_data[SatA])
    /\ resi_gain.pass_data = windows[1].sat_data[SatA].mwa_pass

\* the satellite loop is at a pass
AtProjPass == pc = "project_tile_healpix" /\ pass_pos <= Len(passes)

\* the post-fit p-value of the pass of the loop
PvalNow == PassPval(rfe_polyfit, passes[pass_pos])

\* the post-fit p-value of pass k of the run
PvalOf(k) == PassPval(rfe_polyfit, passes[k])

\* the configured goodness-of-fit threshold, 0.8 when none is configured
ConfiguredThresh == IF fit_thresh.given THEN fit_thresh.value ELSE 8 * 100

\* C18: a pass's samples are appended to the map if and only if the p-value
\* of the pass is at least the configured goodness-of-fit threshold (0.8
\* when none is configured), whatever its pixels.
C18_Configured ==
    [][AtProjPass =>
        ((tile_data' # tile_data) <=> (PvalNow # NaN /\ PvalNow >= ConfiguredThresh))]_allVars


\* the five lists of a pixel of a pointing
Lists(data, p, x) ==
    <<data.mwa_maps[p][x], data.ref_maps[p][x], data.tile_maps[p][x],
      data.times[p][x], data.sat_map[p][x]>>

SameLengths ==
    tile_data # <<>> =>
        \A p \in pointings, x \in Pixels, a \in 1..5, b \in 1..5 :
            Len(Lists(tile_data, p, x)[a]) = Len(Lists(tile_data, p, x)[b])

\* the pass of the loop touches pixel x of pointing p
PassTouches(p, x) ==
    /\ passes[pass_pos].point = p
    /\ \E i \in DOMAIN passes[pass_pos].u : passes[pass_pos].u[i] = x

\* list b is list a with exactly one entry more at its end
OneMore(a, b) == Len(b) = Len(a) + 1 /\ SubSeq(b, 1, Len(a)) = a

\* what one pass does to the five lists of every pixel of every pointing
PassAppends ==
    \A accepted \in {Gate(PvalNow)}, p \in pointings, x \in Pixels, a \in 1..5 :
        IF accepted /\ PassTouches(p, x)
        THEN OneMore(Lists(tile_data, p, x)[a], Lists(tile_data', p, x)[a])
        ELSE Lists(tile_data', p, x)[a] = Lists(tile_data, p, x)[a]

Saved == pc = "done" /\ sat_maps # <<>>

\* the places of the accumulated samples of pixel x of pointing p whose
\* recorded satellite id is s
PlacesOf(p, x, s) ==
    {k \in DOMAIN tile_data.sat_map[p][x] : tile_data.sat_map[p][x][k] = s}

\* sub is the subsequence of list at the places K, in the order of list
SubsequenceAt(sub, list, K) ==
    /\ Len(sub) = Cardinality(K)
    /\ \A k \in K : sub[Cardinality({j \in K : j <= k})] = list[k]

MeasuredNow == mwa_pass(rfe_polyfit, passes[pass_pos])

\* the measured beam of the pass equals the model at every touched pixel
ExactNow ==
    \A i \in DOMAIN passes[pass_pos].u :
        MeasuredNow[i] = passes[pass_pos].mwa_fee_pass[i]

\* the last entry of the calibrated power of every touched pixel is the
\* measured power of the pass at that pixel
Populated(data) ==
    \A i \in DOMAIN passes[pass_pos].u :
        \E l \in {data.mwa_maps[passes[pass_pos].point][passes[pass_pos].u[i]]} :
            /\ Len(l) > 0
            /\ l[Len(l)].num = l[Len(l)].den * MeasuredNow[i]

\* C21: when the measured beam of a pass equals the model at every touched
\* pixel, the fitted offset is zero, the pass is accepted with p-value 1.0
\* and every touched pixel receives the measured power unmodified.
C21_Exact ==
    [][(AtProjPass /\ ExactNow) =>
        /\ fit_gain(MeasuredNow, passes[pass_pos].mwa_fee_pass).num = 0
        /\ PvalNow = PvalOne
        /\ tile_data' # tile_data
        /\ Populated(tile_data')]_allVars


(***************************************************************************)
(* The drivers.  rfe_batch_cali of tile_maps.py and the main programs of    *)
(* window_chan_map.py and tile_maps.py hand their units of work to          *)
(* executor.map inside "with ProcessPoolExecutor() as executor"; leaving    *)
(* the with block is executor.shutdown(wait=True).  The results of map are  *)
(* never read, so an exception of a task stays in its future.  pc is the    *)
(* place of the main process; a task is pending, running, finished (it      *)
(* returned) or failed (it raised).                                         *)
(***************************************************************************)

\* the MWA tiles of tile_names that the model takes
NumTiles == 2

\* processes of the pool
MaxWorkers == 2

\* the windows of obs_list that the model hands to the pool
NumObs == 5

XX == <<"X", "X">>
YY == <<"Y", "Y">>

\* the first names of tile_names(): the four references
RefNames ==
    << <<"r", "f", "0">> \o XX, <<"r", "f", "0">> \o YY,
       <<"r", "f", "1">> \o XX, <<"r", "f", "1">> \o YY >>

\* the next names of tile_names(): the MWA tiles
TileNames ==
    << <<"S", "0", "6">> \o XX, <<"S", "0", "6">> \o YY,
       <<"S", "0", "7">> \o XX, <<"S", "0", "7">> \o YY >>

tile_names == RefNames \o SubSeq(TileNames, 1, NumTiles)

\* sub in s, for strings
Contains(sub, s) ==
    \E k \in 1..(Len(s) - Len(sub) + 1) : SubSeq(s, k, k + Len(sub) - 1) = sub

refs == SubSeq(tile_names, 1, 4)
tiles == SubSeq(tile_names, 5, Len(tile_names))

\* [t for t in tiles if "XX" in t], or with "YY"
TilesOf(pol) == SelectSeq(tiles, LAMBDA t : Contains(pol, t))

\* the turns of "for tile in ..." for one ref
PairsOf(ref) ==
    [k \in 1..Len(TilesOf(IF Contains(XX, ref) THEN XX ELSE YY)) |->
        <<ref, TilesOf(IF Contains(XX, ref) THEN XX ELSE YY)[k]>>]

\* tile_pairs of l.801-812 and l.1313-1324
tile_pairs == PairsOf(refs[1]) \o PairsOf(refs[2]) \o PairsOf(refs[3]) \o PairsOf(refs[4])

\* time_tree(start_date, stop_date)[1]: the ids of the 48 windows of each day
time_tree(sd, ed) == obs_times(Perth, sd, ed).obs_time

\* a name without the reference
TileFitName(pair) ==
    pair[2] \o <<"_", "g", "a", "i", "n", "_", "f", "i", "t", ".", "j", "s", "o", "n">>

\* f"{out_dir}/{tile}_{ref}_gain_fit.json", l.687
GainFitName(pair) ==
    pair[2] \o <<"_">> \o pair[1]
        \o <<"_", "g", "a", "i", "n", "_", "f", "i", "t", ".", "j", "s", "o", "n">>

\* f"{out_dir}/{tile}_{ref}_sat_maps.npz", l.1166
SatMapsName(pair) ==
    pair[2] \o <<"_">> \o pair[1]
        \o <<"_", "s", "a", "t", "_", "m", "a", "p", "s", ".", "n", "p", "z">>

\* f'{out_dir}/window_maps/{timestamp}.json', window_chan_map.py l.229
WindowMapName(timestamp) == JsonName(timestamp)

\* f"{rfe_cali_dir}/rfe_gain_fit.npy", l.737
GainFitNpy == <<"r", "f", "e", "_", "g", "a", "i", "n", "_", "f", "i", "t", ".", "n", "p", "y">>

\* name.endswith(".json"): Path(rfe_cali_dir).glob("*.json")
IsJson(name) ==
    Len(name) >= 5 /\ SubSeq(name, Len(name) - 4, Len(name)) = <<".", "j", "s", "o", "n">>

\* the file that the task of a unit writes when it returns
OutName(prog, unit) ==
    IF prog = "rfe_batch_cali" THEN GainFitName(unit)
    ELSE IF prog = "window_chan_map" THEN WindowMapName(unit)
    ELSE SatMapsName(unit)

\* the tasks of the pool that are over
Over(f) == \A k \in DOMAIN f : f[k] \in {"finished", "failed"}

\* no task waits for a worker
NonePending(f) == \A k \in DOMAIN f : f[k] # "pending"

\* executor.shutdown(wait=True) returns
Joined(f) == Over(f)

RunningTasks == {k \in DOMAIN futures : futures[k] = "running"}

\* obs_list of window_chan_map.py l.277, and tile_pairs
AllUnits(prog) ==
    IF prog = "window_chan_map" THEN time_tree(MainDate, MainDate) ELSE tile_pairs

InitBatch ==
    /\ pc = "executor.map"
    /\ err = "none"
    /\ \/ program = "rfe_batch_cali" /\ units = tile_pairs
       \/ /\ program = "window_chan_map"
          /\ units = SubSeq(AllUnits("window_chan_map"), 1, NumObs)
       \/ program = "tile_maps" /\ units = tile_pairs
    /\ futures = <<>>
    /\ written = {}
    /\ collated = {}
    /\ IdleChrono
    /\ IdleChan
    /\ IdleCali
    /\ IdleProj
    /\ IdleFit
    /\ IdleThresh

\* executor.map: a task for every unit, in the order of the units
Submit ==
    /\ pc = "executor.map"
    /\ futures' = [k \in DOMAIN units |-> "pending"]
    /\ pc' = "shutdown"
    /\ UNCHANGED <<err, program, units, written, collated>>
    /\ UNCHANGED notBatch

\* a free worker takes the first task of the queue
StartTask ==
    /\ pc = "shutdown"
    /\ Cardinality(RunningTasks) < MaxWorkers
    /\ \E k \in DOMAIN futures :
          /\ futures[k] = "pending"
          /\ \A j \in 1..(k - 1) : futures[j] # "pending"
          /\ futures' = [futures EXCEPT ![k] = "running"]
    /\ UNCHANGED <<pc, err, program, units, written, collated>>
    /\ UNCHANGED notBatch

\* a task returns: rfe_calibration has written its residuals (l.687), and
\* window_chan_map, which catches its exceptions (l.222), its channel map
\* (l.229).  project_tile_healpix(tile_pair, start_date, stop_date) is
\* called with one argument (l.1347) and never returns.
FinishTask ==
    /\ pc = "shutdown"
    /\ program \in {"rfe_batch_cali", "window_chan_map"}
    /\ \E k \in RunningTasks :
          /\ futures' = [futures EXCEPT ![k] = "finished"]
          /\ written' = written \cup {[name |-> OutName(program, units[k]), by |-> k]}
    /\ UNCHANGED <<pc, err, program, units, collated>>
    /\ UNCHANGED notBatch

\* a task raises: rfe_calibration on a file that is missing (l.491) or a
\* satellite that is not in the window (l.360), project_tile_healpix at its
\* call (TypeError)
FailTask ==
    /\ pc = "shutdown"
    /\ program \in {"rfe_batch_cali", "tile_maps"}
    /\ \E k \in RunningTasks : futures' = [futures EXCEPT ![k] = "failed"]
    /\ UNCHANGED <<pc, err, program, units, written, collated>>
    /\ UNCHANGED notBatch

\* the with block is left
Join ==
    /\ pc = "shutdown"
    /\ Joined(futures)
    /\ pc' = IF program = "rfe_batch_cali" THEN "rfe_collate_cali" ELSE "done"
    /\ UNCHANGED <<err, program, units, futures, written, collated>>
    /\ UNCHANGED notBatch

\* rfe_collate_cali reads the residuals of every json file of rfe_cali_dir,
\* l.694-704
CollateRead ==
    /\ pc = "rfe_collate_cali"
    /\ collated' = {w.name : w \in {v \in written : IsJson(v.name)}}
    /\ pc' = "polyfit"
    /\ UNCHANGED <<err, program, units, futures, written>>
    /\ UNCHANGED notBatch

\* np.polyfit and np.save, l.731-737; np.polyfit raises TypeError on empty
\* vectors
CollateSave ==
    /\ pc = "polyfit"
    /\ IF collated = {}
       THEN /\ err' = "TypeError"
            /\ pc' = "raised"
            /\ UNCHANGED written
       ELSE /\ written' = written \cup {[name |-> GainFitNpy, by |-> 0]}
            /\ pc' = "done"
            /\ UNCHANGED err
    /\ UNCHANGED <<program, units, futures, collated>>
    /\ UNCHANGED notBatch

NextBatch ==
    \/ Submit
    \/ StartTask
    \/ FinishTask
    \/ FailTask
    \/ Join
    \/ CollateRead
    \/ CollateSave

SpecBatch == InitBatch /\ [][NextBatch]_allVars

(***************************************************************************)
(* Claims on the drivers.                                                   *)
(***************************************************************************)

\* rfe_collate_cali runs
Collating == pc \in {"rfe_collate_cali", "polyfit"}

\* C22: in rfe_batch_cali the aggregation step rfe_collate_cali starts only
\* after every rfe_calibration task handed to the pool is over, returned or
\* raised; it never runs while a worker runs a task.
C22_AfterWorkers ==
    (program = "rfe_batch_cali" /\ Collating) =>
        /\ futures # <<>>
        /\ \A k \in DOMAIN units : futures[k] \in {"finished", "failed"}

\* rfe_collate_cali runs after a task that returned and a task that raised
C22_Reached ==
    /\ program = "rfe_batch_cali"
    /\ Collating
    /\ \E k \in DOMAIN futures : futures[k] = "finished"
    /\ \E k \in DOMAIN futures : futures[k] = "failed"


\* C24: two distinct units of parallel work, two windows of the Channel
\* Identifier or two (reference, tile) pairs of the Gain Calibrator or of the
\* Beam Projector, never have the same output file name, and no file of the
\* output directory is written by two workers.
C24_OwnFile ==
    /\ pc = "executor.map" =>
          \A all \in {AllUnits(program)} : \A i \in DOMAIN all, j \in DOMAIN all :
              all[i] # all[j] => OutName(program, all[i]) # OutName(program, all[j])
    /\ \A v \in written, w \in written : v.name = w.name => v.by = w.by

\* two workers have written their files and a third task runs
C24_Reached ==
    /\ \E v \in written, w \in written : v.by # w.by /\ v.by # 0 /\ w.by # 0
    /\ \E k \in DOMAIN futures : futures[k] = "running"
    /\ \A all \in {AllUnits(program)} : \A i \in DOMAIN all, j \in DOMAIN all :
          i # j => all[i] # all[j]


(***************************************************************************)
(* More claims on the Ephemeris Matcher.                                    *)
(***************************************************************************)

\* the step appends one entry to the file of one window: the file keeps
\* its entries in their order, and every other file is as it was
AppendsToOne ==
    /\ DOMAIN files' = DOMAIN files
    /\ \E name \in DOMAIN files :
          /\ OneMore(files[name], files'[name])
          /\ \A other \in DOMAIN files : other # name => files'[other] = files[other]

\* no file has fewer entries after the step
NoneShorter == \A name \in DOMAIN files : Len(files'[name]) >= Len(files[name])

\* C23, as the claim states it: each append of a fragment keeps the entries
\* of the window in their order and leaves every other window unchanged, and
\* within one run the entry count of no window ever decreases.
C23_NeverFewer ==
    [][/\ (pc = "match" /\ files' # files) => AppendsToOne
       /\ NoneShorter]_allVars

\* C23, amended: each append of a fragment keeps the entries of the window
\* in their order and leaves every other window unchanged; once the run has
\* written the empty list to the file of every window, the entry count of no
\* window decreases.
C23_Additive ==
    [][/\ (pc = "match" /\ files' # files) => AppendsToOne
       /\ pc \notin {"start", "mkfiles"} => NoneShorter]_allVars

\* a fragment has been appended to a window that already held one
C23_Reached ==
    /\ pc \in {"match", "files", "done"}
    /\ \E name \in DOMAIN files : Len(files[name]) >= 2

\* the run has written the empty list to the file of every window
FilesMade == pc \in {"files", "passes", "match", "done"}

\* the satellites of the ephemeris files of the run
SatsOfRun == {<<ephem[f].sat_id>> : f \in 1..Len(ephem)}

\* C30: a run of save_chrono_ephem into a directory that holds the files of
\* an earlier run leaves in the file of every window what a run into an
\* empty directory leaves: from the first loop on no file of a window holds
\* an entry that it held before the run, every entry is a fragment of a
\* satellite of this run, and no entry is there twice
C30_NothingKept ==
    FilesMade =>
        \A i \in Windows :
            \A k \in DOMAIN files[WinFile(i)] :
                /\ files[WinFile(i)][k] # Stale
                /\ files[WinFile(i)][k].sat_id \in SatsOfRun
                /\ \A l \in DOMAIN files[WinFile(i)] :
                      files[WinFile(i)][l] = files[WinFile(i)][k] => l = k

\* the run is over: the file that held an entry of the earlier run holds
\* fragments of this run, and the other is empty
C30_Reached ==
    /\ pc = "done"
    /\ OldFiles[JsonName(MainId)] = <<Stale>>
    /\ files[JsonName(MainId)] # <<>>
    /\ files[JsonName(NoonId)] = <<>>
    /\ JsonName(MainId) \in {WinFile(i) : i \in Windows}

-----------------------------------------------------------------------------
(* Two fragments of one satellite in a window *)

\* the window's ephemeris lists the satellite of the loop more than once
TwiceListed ==
    /\ pc = "sats"
    /\ sat_pos <= Len(norad_list)
    /\ ref_file.is_file
    /\ \E i \in DOMAIN norad_list :
          i # sat_pos /\ norad_list[i] = norad_list[sat_pos]

\* the channel of the fragment of the turn of the loop, from its own rise
\* and set times and its own altitudes
OwnChannel ==
    power_ephem(ref_file, <<chrono_file.chrono_ephem[sat_pos]>>,
                norad_list[sat_pos])

\* C28: when the ephemeris of a window holds two fragments of one satellite,
\* every fragment is evaluated against its own rise and set times and its
\* own altitudes, so that a fragment with a channel of its own leaves that
\* channel in the map of the window
C28_EachFragment ==
    [][TwiceListed =>
          \A own \in {OwnChannel} :
              own # 0 =>
                  /\ norad_list[sat_pos] \in DOMAIN channel_map'
                  /\ channel_map'[norad_list[sat_pos]] = own]_allVars

-----------------------------------------------------------------------------
(* The offset fit of one pass and its goodness-of-fit test: chisq_fit_gain  *)
(* and test_chisq_fit of tile_maps.py, as rfe_calibration calls them on the *)
(* filtered arrays of a pass (lines 632 to 656).  Powers are whole dB,      *)
(* multiples of six, so that the mean of up to three differences is whole.  *)

\* the largest number of samples of a fitted pass
MaxFit == 2

\* test_chisq_fit(data, model, offset=20)
ChiOffset == 20

\* measured powers and model powers of a sample
FitPowers == {0 - 78, 0 - 60, 0 - 36}
FeePowers == {0 - 48, 0 - 30}

\* the p-values of chisquare for arrays that differ
FitPvals == {500, 900}

\* how far from the least squares offset a minimisation that gave up stops
StoppedShort == 6

\* the OptimizeResult of opt.minimize(chisqfunc, x0): the search from x0 = 0
\* either ends at the least squares offset with success, or gives up (loss
\* of precision, iteration limit) and reports the point it had reached:
\* x0 itself or a point short of the minimum
Minimized(data, model) ==
    LET best == chisq_fit_gain(data, model, DOMAIN data)
    IN  {[success |-> TRUE, x |-> best],
         [success |-> FALSE, x |-> 0],
         [success |-> FALSE, x |-> best + StoppedShort]}

\* mwa_fee_pass = mwa_fee_pass + offset, with offset = result.x
WithOffset(model, x) == [i \in DOMAIN model |-> model[i] + x]

\* the shift that would leave the least model value at zero
ShiftToZero(v, least) == v - least

\* np.asarray(v) - np.nanmin(model) + offset, for one element
ShiftBy(v, least) == v - least + ChiOffset

\* test_chisq_fit: both arrays shifted by - np.nanmin(model) + offset, then
\* chisquare(data, f_exp=model): 1 when the arrays agree, nan with a single
\* sample (no degree of freedom), and pv otherwise
test_chisq_fit(data, model, pv) ==
    LET least == SeqMin(model)
        sdata == [i \in DOMAIN data |-> ShiftBy(data[i], least)]
        smodel == [i \in DOMAIN model |-> ShiftBy(model[i], least)]
    IN  [data |-> sdata, model |-> smodel,
         pvalue |-> IF Len(data) = 1 THEN NaN
                    ELSE IF sdata = smodel THEN PvalOne ELSE pv]

InitFit ==
    /\ pc = "opt.minimize"
    /\ err = "none"
    /\ \E n \in 1..MaxFit :
          /\ fit_data \in [1..n -> FitPowers]
          /\ fit_model \in [1..n -> FeePowers]
    /\ result = <<>>
    /\ fitted = <<>>
    /\ shifted = <<>>
    /\ IdleChrono
    /\ IdleChan
    /\ IdleCali
    /\ IdleProj
    /\ IdleBatch
    /\ IdleThresh

\* chisq_fit_gain, lines 86 to 91: result = opt.minimize(chisqfunc, x0)
Minimize ==
    /\ pc = "opt.minimize"
    /\ result' \in Minimized(fit_data, fit_model)
    /\ pc' = "offset"
    /\ UNCHANGED <<err, fit_data, fit_model, fitted, shifted>>
    /\ UNCHANGED notFit

\* chisq_fit_gain returns result.x and line 636 adds it to the model array
AddOffset ==
    /\ pc = "offset"
    /\ fitted' = WithOffset(fit_model, result.x)
    /\ pc' = "test_chisq_fit"
    /\ UNCHANGED <<err, fit_data, fit_model, result, shifted>>
    /\ UNCHANGED notFit

\* lines 650 to 656: pval = test_chisq_fit(data=mwa_pass_fit, model=mwa_fee_pass)
TestChisqFit ==
    /\ pc = "test_chisq_fit"
    /\ \E pv \in FitPvals : shifted' = test_chisq_fit(fit_data, fitted, pv)
    /\ pc' = "done"
    /\ UNCHANGED <<err, fit_data, fit_model, result, fitted>>
    /\ UNCHANGED notFit

NextFit ==
    \/ Minimize
    \/ AddOffset
    \/ TestChisqFit

SpecFit == InitFit /\ [][NextFit]_allVars

\* C26: when opt.minimize reports that it did not converge, the offset fit is
\* skipped: the model array goes on unmodified, with zero offset, and the
\* result of the search that gave up is not used
C26_Fallback ==
    [][(pc = "offset" /\ ~result.success) => fitted' = fit_model]_allVars

\* C27 as stated: after the shift by - min(model) + offset every element of
\* the shifted model array and of the shifted measured array is above zero
C27_BothPositive ==
    pc = "done" =>
        \A i \in DOMAIN shifted.data :
            shifted.model[i] > 0 /\ shifted.data[i] > 0

\* C27: after the shift every element of the shifted model array is at least
\* the offset of 20, which its least element equals, and so above zero; an
\* element of the shifted measured array is above zero exactly when the
\* measured value is less than 20 below the least value of the fitted model
C27_ModelPositive ==
    pc = "done" =>
        /\ \A i \in DOMAIN shifted.model : shifted.model[i] >= ChiOffset
        /\ \E i \in DOMAIN shifted.model : shifted.model[i] = ChiOffset
        /\ \A i \in DOMAIN shifted.data :
              shifted.data[i] > 0 <=> fit_data[i] > SeqMin(fitted) - ChiOffset

\* a tested pair with a measured sample 20 or more below the least of the
\* model, after an offset fit that converged
C27_Reached ==
    /\ pc = "done"
    /\ result.success
    /\ \E i \in DOMAIN shifted.data : shifted.data[i] <= 0
    /\ \A i \in DOMAIN shifted.model : shifted.model[i] > 0

-----------------------------------------------------------------------------
(* The threshold stage: rf_apply_thresholds of tile_maps.py on the channel  *)
(* of one satellite, and lines 529 to 593 of rfe_calibration that turn what *)
(* it returns into the pixels of a pass.  The trace and the ephemeris have  *)
(* one sample a second.                                                     *)

\* samples of the aligned trace
ThreshLen == 3

\* degrees of altitude to a pixel: a stand-in for the rings of hp.ang2pix
RingDeg == 10

\* return 0: nothing of the pass is above the thresholds
NoSamples == [returned |-> 0]

\* the elements of a set of numbers in ascending order, as np.where lists
\* the places of a mask
Ascending(S) ==
    CHOOSE q \in [1..Cardinality(S) -> S] :
        \A i, j \in DOMAIN q : i < j => q[i] < q[j]

\* hp.ang2pix(nside, za, az) with za = pi/2 - alt: pixels are numbered from
\* the zenith down
ang2pix(alt, az) == (90 - alt) \div RingDeg

\* x[np.where(mask)[0]] for the places of the mask
Take(x, places) == [j \in DOMAIN places |-> x[places[j]]]

\* return [good_ref, good_tile, good_alt, good_az, times_c]
ReturnedTimes(times_c, places) == times_c

\* rf_apply_thresholds, lines 352 to 415, on the channel of the satellite
rf_apply_thresholds(a, e) ==
    LET intvl == time_filter(e.time_array[1], e.time_array[Len(e.time_array)],
                             a.times)
    IN  IF intvl = None THEN NoSamples
        ELSE
          LET w_start == intvl[1]
              w_stop == intvl[2]
              n == w_stop - w_start + 1
              ref_c == [k \in 1..n |-> a.ref_p[w_start + k - 1]]
              tile_c == [k \in 1..n |-> a.tile_p[w_start + k - 1]]
              times_c == [k \in 1..n |-> a.times[w_start + k - 1]]
              good == Ascending({k \in 1..n : /\ ref_c[k] >= a.ref_noise
                                              /\ tile_c[k] >= a.tile_noise})
          IN  IF /\ SeqMax(ref_c) - a.ref_noise >= a.pow_thresh
                 /\ SeqMax(tile_c) - a.tile_noise >= a.pow_thresh
                 /\ Len(good) # 0
              THEN [ref_power |-> Take(ref_c, good),
                    tile_power |-> Take(tile_c, good),
                    alt |-> Take(e.sat_alt, good),
                    az |-> Take(e.sat_az, good),
                    times |-> ReturnedTimes(times_c, good),
                    \* not returned: the times of the returned samples
                    good_times |-> Take(times_c, good)]
              ELSE NoSamples

\* np.where(healpix_index == i)[0]
PlacesOfPixel(index, i) == Ascending({j \in DOMAIN index : index[j] = i})

\* np.nanmean(x[np.where(healpix_index == i)[0]]), a whole number for the
\* powers of the model
PixelMean(x, places) ==
    SumOver(x, {places[j] : j \in DOMAIN places}) \div Len(places)

\* lines 545 to 593: u = np.unique(healpix_index) and, for every pixel of u,
\* the mean powers and times[np.where(healpix_index == i)][0]
PixelsOf(index, data) ==
    LET u == Ascending({index[j] : j \in DOMAIN index})
    IN  [u |-> u,
         ref_pass |-> [k \in DOMAIN u |->
                          PixelMean(data.ref_power, PlacesOfPixel(index, u[k]))],
         tile_pass |-> [k \in DOMAIN u |->
                           PixelMean(data.tile_power, PlacesOfPixel(index, u[k]))],
         times_pass |-> [k \in DOMAIN u |->
                            data.times[PlacesOfPixel(index, u[k])[1]]]]

(* The inputs *)

\* powers of a sample of the channel: below the noise floor, above it, and
\* pow_thresh or more above it
RefPowers == {0 - 5, 5, 15}
TilePowers == {0 - 5, 15}

AliTraces ==
    {[ref_p |-> r, tile_p |-> t, times |-> [k \in 1..ThreshLen |-> k],
      ref_noise |-> 0, tile_noise |-> 0, pow_thresh |-> 10] :
        r \in [1..ThreshLen -> RefPowers], t \in [1..ThreshLen -> TilePowers]}

\* a fragment that rises at the time rise, a second to each altitude
PassFragment(rise, alts) ==
    [sat_id |-> <<SatA>>,
     time_array |-> [k \in DOMAIN alts |-> rise + k - 1],
     sat_alt |-> alts,
     sat_az |-> [k \in DOMAIN alts |-> 0]]

\* a pass that climbs while the trace lasts, from its first sample on or
\* from its second, and one that sets after the first sample
PassFragments ==
    {PassFragment(1, [k \in 1..ThreshLen |-> 50 + RingDeg * ((k + 1) \div 2)]),
     PassFragment(2, [k \in 1..ThreshLen |-> 60 + RingDeg * (k \div 2)]),
     PassFragment(0, <<85, 80>>)}

InitThresh ==
    /\ pc = "rf_apply_thresholds"
    /\ err = "none"
    /\ ali_trace \in AliTraces
    /\ norad_ephem \in PassFragments
    /\ sat_samples = <<>>
    /\ healpix_index = <<>>
    /\ times_pass = <<>>
    /\ IdleChrono
    /\ IdleChan
    /\ IdleCali
    /\ IdleProj
    /\ IdleBatch
    /\ IdleFit

\* sat_data = rf_apply_thresholds(...)
ApplyThresholds ==
    /\ pc = "rf_apply_thresholds"
    /\ sat_samples' = rf_apply_thresholds(ali_trace, norad_ephem)
    /\ pc' = IF sat_samples' # NoSamples THEN "ang2pix" ELSE "done"
    /\ UNCHANGED <<err, ali_trace, norad_ephem, healpix_index, times_pass>>
    /\ UNCHANGED notThresh

\* if sat_data != 0: healpix_index = hp.ang2pix(nside, za, az)
ToHealpix ==
    /\ pc = "ang2pix"
    /\ healpix_index' = [j \in DOMAIN sat_samples.alt |->
                            ang2pix(sat_samples.alt[j], sat_samples.az[j])]
    /\ pc' = "unique"
    /\ UNCHANGED <<err, ali_trace, norad_ephem, sat_samples, times_pass>>
    /\ UNCHANGED notThresh

\* u, ref_pass, tile_pass and times_pass
ToPixels ==
    /\ pc = "unique"
    /\ times_pass' = PixelsOf(healpix_index, sat_samples)
    /\ pc' = "done"
    /\ UNCHANGED <<err, ali_trace, norad_ephem, sat_samples, healpix_index>>
    /\ UNCHANGED notThresh

NextThresh ==
    \/ ApplyThresholds
    \/ ToHealpix
    \/ ToPixels

SpecThresh == InitThresh /\ [][NextThresh]_allVars

\* the pixels of the pass are made
Pixelled == pc = "done" /\ sat_samples # NoSamples

\* C29: the time array that rf_apply_thresholds returns has a time for each
\* returned power, altitude and azimuth, and the time recorded for a pixel
\* of a pass is the time of a sample of the trace that is above both noise
\* floors and lies in that pixel
C29_Aligned ==
    Pixelled =>
        /\ Len(sat_samples.times) = Len(sat_samples.ref_power)
        /\ Len(sat_samples.times) = Len(sat_samples.alt)
        /\ \A k \in DOMAIN times_pass.u :
              \E j \in DOMAIN healpix_index :
                  /\ healpix_index[j] = times_pass.u[k]
                  /\ sat_samples.good_times[j] = times_pass.times_pass[k]

=============================================================================
